---- MODULE Spec2Model ----
(***************************************************************************)
(* A model of the datapyground compute engine: the pull-based operator     *)
(* tree (src/datapyground/compute).  Every operator is a Python generator; *)
(* the model follows each generator from one suspension point to the next. *)
(* One record variable holds the frame of each operator's batches() call,  *)
(* its fields named after the locals and attributes of the source.         *)
(***************************************************************************)
EXTENDS Integers, Sequences, FiniteSets, TLC

VARIABLES child, paginate, sort, extsort, tmpdir, filter, aggregate, join, project,
          expression_parser, parser, planner

vars == <<child, paginate, sort, extsort, tmpdir, filter, aggregate, join, project, expression_parser, parser, planner>>

(* the variables a step of each operator leaves alone, besides those it names *)
paginateRest == <<sort, extsort, tmpdir, filter, aggregate, join, project>>
sortRest == <<paginate, extsort, tmpdir, filter, aggregate, join, project>>
extsortRest == <<paginate, sort, filter, aggregate, join, project>>
filterRest == <<paginate, sort, extsort, tmpdir, aggregate, join, project>>
aggregateRest == <<paginate, sort, extsort, tmpdir, filter, join, project>>
joinRest == <<child, paginate, sort, extsort, tmpdir, filter, aggregate, project>>
projectRest == <<paginate, sort, extsort, tmpdir, filter, aggregate, join>>
operators == <<child, paginate, sort, extsort, tmpdir, filter, aggregate, join, project>>
sqlRest == <<expression_parser, parser, planner>>

(***************************************************************************)
(* Bounds of the model.                                                    *)
(***************************************************************************)
MaxBatches == 3
MaxBatchRows == 3
MaxOffset == 3
MaxLength == 5
MaxRows == 3
MaxInputBatches == 2
MaxSortBatchSize == 2

(* operators in an expression given to the expression parser *)
MaxOperators == 2

(* LIMIT and OFFSET of a query given to the planner *)
MaxLimit == 1

(* clauses after the head of a statement given to the parser *)
MaxClauses == 2

(* characters of a whitespace text given to the parser *)
MaxSpaces == 2

(* sorting keys of an ExternalSortKey *)
MaxSortKeys == 2

(* the next() calls of a consumer that pull no batch from the child *)
MaxIdleRequests == 1

(***************************************************************************)
(* Sequence helpers.                                                       *)
(***************************************************************************)
Min(a, b) == IF a <= b THEN a ELSE b
Max(a, b) == IF a >= b THEN a ELSE b

Range(s) == {s[i] : i \in DOMAIN s}

RECURSIVE Flatten(_)
Flatten(ss) == IF ss = <<>> THEN <<>> ELSE Head(ss) \o Flatten(Tail(ss))

RECURSIVE SeqsUpTo(_, _)
SeqsUpTo(S, n) ==
    IF n = 0 THEN {<<>>}
    ELSE LET shorter == SeqsUpTo(S, n - 1)
         IN  shorter \cup {Append(s, x) : s \in {t \in shorter : Len(t) = n - 1}, x \in S}

(* RecordBatch.slice(offset, length): zero-copy window, clamped to the batch *)
Slice(batch, offset, length) ==
    SubSeq(batch, offset + 1, Min(offset + length, Len(batch)))

(* the frame of an operator that is not part of the plan being run *)
Idle == [pc |-> "idle"]

(* the temporary directory: the files in it, and how many were ever made *)
NoFiles == [existing |-> {}, created |-> 0]

(***************************************************************************)
(* The child generator: MockQueryPlanNode / CSVDataSource.batches().       *)
(*   _batches : the batches a finite child holds                           *)
(*   pos      : how many batches it has handed out                         *)
(*   infinite : a reader that never runs out (every batch non-empty)       *)
(*   state    : created | suspended | exhausted | closed                   *)
(*   reader_open : the `with open_csv(...) as reader` resource is held     *)
(*   rows_out : rows handed to the parent so far                           *)
(***************************************************************************)
NewChild(batches, infinite) ==
    [_batches |-> batches, pos |-> 0, infinite |-> infinite,
     state |-> "created", reader_open |-> FALSE, rows_out |-> 0]

(* rows lo .. lo+n-1 as a batch; a row of these streams is its global index *)
RowIds(lo, n) == [i \in 1..n |-> lo + i - 1]

RECURSIVE BatchesOfSizes(_, _)
BatchesOfSizes(sizes, lo) ==
    IF sizes = <<>> THEN <<>>
    ELSE <<RowIds(lo, Head(sizes))>> \o BatchesOfSizes(Tail(sizes), lo + Head(sizes))

ChildLive(c) == c.state \in {"created", "suspended"}

(* the batches next() on the child may return; empty set: StopIteration *)
ChildOffers(c) ==
    IF ~ChildLive(c) THEN {}
    ELSE IF c.infinite THEN {RowIds(c.rows_out, n) : n \in 1..MaxBatchRows}
    ELSE IF c.pos < Len(c._batches) THEN {c._batches[c.pos + 1]}
    ELSE {}

(* a slip ChildYielded could have: a batch read ahead of the one handed out *)
ChildYieldedAhead(c, b) ==
    [c EXCEPT !.state = "suspended", !.reader_open = TRUE,
              !.pos = @ + 2,
              !.rows_out = @ + Len(b)]

(* the child after it yielded batch b *)
ChildYielded(c, b) ==
    [c EXCEPT !.state = "suspended", !.reader_open = TRUE,
              !.pos = @ + 1,
              !.rows_out = @ + Len(b)]

(* the child after next() ran it off the end of its loop: the with block exits *)
ChildExhausted(c) ==
    IF ChildLive(c) THEN [c EXCEPT !.state = "exhausted", !.reader_open = FALSE]
    ELSE c

(* generator.close(): GeneratorExit at the yield unwinds the with block;
   a generator that never started just ends; a finished one is untouched *)
ChildClose(c) ==
    IF ChildLive(c) THEN [c EXCEPT !.state = "closed", !.reader_open = FALSE]
    ELSE c

(***************************************************************************)
(* PaginateNode (compute/pagination.py).                                   *)
(*   pc : created (batches() called, body not started) | loop (at the for  *)
(*        statement, about to ask the child) | yield (suspended at the     *)
(*        yield) | done                                                    *)
(***************************************************************************)
NewPaginate(offset, length) ==
    [offset |-> offset, length |-> length, end |-> offset + length,
     consumed_rows |-> 0, batch_size |-> 0, pc |-> "created", out |-> <<>>]

StartInBatch(offset, consumed_rows) == Max(0, offset - consumed_rows)

RemainingRows(offset, length, consumed_rows) == offset + length - consumed_rows

RowsInThisBatch(batch_size, start_in_batch, remaining_rows) ==
    Min(batch_size - start_in_batch, remaining_rows)

WindowSatisfied(p, consumed_rows) == consumed_rows >= p.offset + p.length

(* a slip PaginateAfterBatch could have: stopping without closing the child *)
PaginateAfterBatchNoClose(p, c) ==
    LET consumed == p.consumed_rows + p.batch_size
    IN  /\ paginate' = [p EXCEPT !.consumed_rows = consumed,
                                 !.pc = IF WindowSatisfied(p, consumed)
                                        THEN "done" ELSE "loop"]
        /\ child' = c

(* lines 83-86: count the batch, then close the child and stop, or loop *)
PaginateAfterBatch(p, c) ==
    LET consumed == p.consumed_rows + p.batch_size
    IN  IF WindowSatisfied(p, consumed)
        THEN /\ paginate' = [p EXCEPT !.consumed_rows = consumed, !.pc = "done"]
             /\ child' = ChildClose(c)
        ELSE /\ paginate' = [p EXCEPT !.consumed_rows = consumed, !.pc = "loop"]
             /\ child' = c

(* the consumer's first next(): lines 56-58 *)
PaginateStart ==
    /\ paginate.pc = "created"
    /\ paginate' = [paginate EXCEPT !.consumed_rows = 0, !.pc = "loop"]
    /\ UNCHANGED <<child, paginateRest, sqlRest>>

(* one turn of `for batch in batches_generator`, lines 59-86 up to the yield *)
PaginatePull ==
    /\ paginate.pc = "loop"
    /\ IF ChildOffers(child) = {}
       THEN /\ child' = ChildExhausted(child)
            /\ paginate' = [paginate EXCEPT !.pc = "done"]
       ELSE \E batch \in ChildOffers(child) :
              LET c == ChildYielded(child, batch)
                  batch_size == Len(batch)
                  p == [paginate EXCEPT !.batch_size = batch_size]
              IN  IF p.consumed_rows + batch_size <= p.offset
                  THEN /\ paginate' = [p EXCEPT !.consumed_rows = @ + batch_size]
                       /\ child' = c
                  ELSE LET start_in_batch == StartInBatch(p.offset, p.consumed_rows)
                           remaining_rows ==
                               RemainingRows(p.offset, p.length, p.consumed_rows)
                           rows_in_this_batch ==
                               RowsInThisBatch(batch_size, start_in_batch, remaining_rows)
                       IN  IF rows_in_this_batch > 0
                           THEN /\ paginate' =
                                     [p EXCEPT !.pc = "yield",
                                               !.out = Append(@,
                                                   Slice(batch, start_in_batch,
                                                         rows_in_this_batch))]
                                /\ child' = c
                           ELSE PaginateAfterBatch(p, c)
    /\ UNCHANGED <<paginateRest, sqlRest>>

(* the consumer's next() while suspended at the yield: lines 83-86 *)
PaginateResume ==
    /\ paginate.pc = "yield"
    /\ PaginateAfterBatch(paginate, child)
    /\ UNCHANGED <<paginateRest, sqlRest>>

InitPaginate ==
    /\ \E offset \in 0..MaxOffset, length \in 0..MaxLength :
           paginate = NewPaginate(offset, length)
    /\ \/ \E sizes \in SeqsUpTo(0..MaxBatchRows, MaxBatches) :
              child = NewChild(BatchesOfSizes(sizes, 0), FALSE)
       \/ child = NewChild(<<>>, TRUE)
    /\ sort = Idle
    /\ extsort = Idle
    /\ tmpdir = NoFiles
    /\ filter = Idle
    /\ aggregate = Idle
    /\ join = Idle
    /\ project = Idle
    /\ expression_parser = Idle
    /\ parser = Idle
    /\ planner = Idle

NextPaginate == PaginateStart \/ PaginatePull \/ PaginateResume

(* a consumer that drains the node keeps calling next() until it ends *)
SpecPaginate == InitPaginate /\ [][NextPaginate]_vars /\ WF_vars(NextPaginate)

(***************************************************************************)
(* Rows and sort keys of the sort operators.  A row is the tuple of its    *)
(* column values; `sorting` is the list of (column, direction) pairs that  *)
(* __init__ zips from keys and descending.                                 *)
(***************************************************************************)
SortValues == {0, 1}

SortRows == {<<a, b>> : a \in SortValues, b \in SortValues}

KeyLists == {<<1>>, <<2>>, <<1, 2>>, <<2, 1>>}

SortConfigs ==
    {[keys |-> ks, descending |-> ds] :
        ks \in KeyLists, ds \in UNION {[1..n -> BOOLEAN] : n \in 1..2}}

RECURSIVE Splits(_, _)
(* the ways to cut the row sequence s into exactly k batches, empty ones too *)
Splits(s, k) ==
    IF k = 0 THEN (IF s = <<>> THEN {<<>>} ELSE {})
    ELSE IF k = 1 THEN {<<s>>}
    ELSE UNION {{<<SubSeq(s, 1, i)>> \o rest :
                    rest \in Splits(SubSeq(s, i + 1, Len(s)), k - 1)} : i \in 0..Len(s)}

(* the batch lists a child of a sort node may hold *)
SortInputs ==
    UNION {Splits(s, k) : s \in SeqsUpTo(SortRows, MaxRows), k \in 0..MaxInputBatches}

(* pyarrow's order of two rows under a (column, direction) list: the first
   key on which they differ decides *)
RECURSIVE SortByLess(_, _, _)
SortByLess(r1, r2, sorting) ==
    IF sorting = <<>> THEN FALSE
    ELSE LET k == Head(sorting)
         IN  IF r1[k.col] = r2[k.col] THEN SortByLess(r1, r2, Tail(sorting))
             ELSE IF k.desc THEN r1[k.col] > r2[k.col] ELSE r1[k.col] < r2[k.col]

RECURSIVE InsertSorted(_, _, _)
InsertSorted(r, s, sorting) ==
    IF s = <<>> THEN <<r>>
    ELSE IF SortByLess(r, Head(s), sorting) THEN <<r>> \o s
    ELSE <<Head(s)>> \o InsertSorted(r, Tail(s), sorting)

RECURSIVE SortBy(_, _)
(* RecordBatch.sort_by / Table.sort_by: a stable sort of the rows *)
SortBy(rows, sorting) ==
    IF rows = <<>> THEN <<>>
    ELSE InsertSorted(rows[Len(rows)], SortBy(SubSeq(rows, 1, Len(rows) - 1), sorting),
                      sorting)

(* list(zip(keys, directions)) of __init__ *)
Sorting(keys, descending) ==
    [i \in 1..Len(keys) |-> [col |-> keys[i], desc |-> descending[i]]]

(* Table.to_batches() of the sorted table: its chunks, none for no rows *)
ToBatches(table) == IF table = <<>> THEN <<>> ELSE <<table>>

(***************************************************************************)
(* SortNode (compute/sorting.py, lines 24-92).                             *)
(*   pc : created | yield_single (suspended at line 77) | yield_table      *)
(*        (suspended at line 90) | done | error                            *)
(***************************************************************************)
NewSort(keys, descending) ==
    [sorting |-> Sorting(keys, descending), pc |-> "created", batches |-> <<>>,
     chunks |-> <<>>, out |-> <<>>, closed |-> FALSE]

(* lines 83-90: concatenate every batch, sort the table, emit its first chunk;
   concat_tables of no table at all raises *)
SortTable(s) ==
    IF s.batches = <<>> THEN [s EXCEPT !.pc = "error"]
    ELSE LET table == SortBy(Flatten(s.batches), s.sorting)
             chunks == ToBatches(table)
         IN  IF chunks = <<>> THEN [s EXCEPT !.pc = "done"]
             ELSE [s EXCEPT !.pc = "yield_table", !.chunks = Tail(chunks),
                            !.out = Append(@, Head(chunks))]

(* the code after the yield of line 77: no return, so it goes on to line 83 *)
SortAfterSingle(s) == SortTable(s)

(* first next(): line 75 drains the child, lines 76-77 *)
SortStart ==
    /\ sort.pc = "created"
    /\ LET batches == SubSeq(child._batches, child.pos + 1, Len(child._batches))
           s == [sort EXCEPT !.batches = batches]
       IN  /\ child' = ChildExhausted([child EXCEPT !.pos = Len(child._batches),
                                                    !.rows_out = Len(Flatten(batches))])
           /\ sort' = IF Len(batches) = 1
                      THEN [s EXCEPT !.pc = "yield_single",
                                     !.out = Append(@, SortBy(batches[1], s.sorting))]
                      ELSE SortTable(s)
    /\ UNCHANGED <<sortRest, sqlRest>>

(* next() while suspended *)
SortResume ==
    /\ \/ /\ sort.pc = "yield_single"
          /\ sort' = SortAfterSingle(sort)
       \/ /\ sort.pc = "yield_table"
          /\ sort' = IF sort.chunks = <<>> THEN [sort EXCEPT !.pc = "done"]
                     ELSE [sort EXCEPT !.chunks = Tail(@),
                                       !.out = Append(@, Head(sort.chunks))]
    /\ UNCHANGED <<child, sortRest, sqlRest>>

(* close() while suspended: GeneratorExit ends the generator at either yield *)
SortClose ==
    /\ sort.pc \in {"yield_single", "yield_table"}
    /\ sort' = [sort EXCEPT !.pc = "done", !.closed = TRUE]
    /\ UNCHANGED <<child, sortRest, sqlRest>>

InitSort ==
    /\ \E batches \in SortInputs : child = NewChild(batches, FALSE)
    /\ \E cfg \in SortConfigs :
          /\ Len(cfg.keys) = Len(cfg.descending)
          /\ sort = NewSort(cfg.keys, cfg.descending)
    /\ paginate = Idle
    /\ extsort = Idle
    /\ tmpdir = NoFiles
    /\ filter = Idle
    /\ aggregate = Idle
    /\ join = Idle
    /\ project = Idle
    /\ expression_parser = Idle
    /\ parser = Idle
    /\ planner = Idle

NextSort == SortStart \/ SortResume \/ SortClose

SpecSort == InitSort /\ [][NextSort]_vars

(***************************************************************************)
(* ExternalSortNode (compute/sorting.py, lines 95-352).                    *)
(*   pc : created | run (at the for statement of line 182) | seed (line    *)
(*        197) | merge (at `while heap`) | yield_chunk (suspended at line  *)
(*        227) | yield_last (suspended at line 246) | done | error         *)
(*   heap : the entries <<batch_idx, row_idx>>; the sort key and the row   *)
(*        of an entry are those of that row of mmaped_batches[batch_idx]   *)
(*   popped : the entry popped last, whose successor is pushed after the   *)
(*        yield                                                            *)
(*   fault : none | child | write, the failure that hit run generation     *)
(***************************************************************************)
NewExternalSort(keys, descending, batch_size) ==
    [sorting_keys |-> keys, descending_orders |-> descending,
     sorting |-> Sorting(keys, descending), batch_size |-> batch_size,
     pc |-> "created", temporay_files |-> <<>>, mmaped_batches |-> <<>>,
     heap |-> {}, current_batch |-> <<>>, popped |-> <<0, 0>>, out |-> <<>>,
     closed |-> FALSE, fault |-> "none"]

(* ExternalSortKey.__init__: the key values of a row, line 341 *)
ExternalSortKey(row, keys_indices) == [i \in DOMAIN keys_indices |-> row[keys_indices[i]]]

(* a slip ExternalSortKeyLt could have: ignoring the direction flags *)
RECURSIVE ExternalSortKeyLtAscending(_, _, _)
ExternalSortKeyLtAscending(values, other, descending_orders) ==
    IF values = <<>> \/ other = <<>> \/ descending_orders = <<>> THEN FALSE
    ELSE IF Head(values) = Head(other)
         THEN ExternalSortKeyLtAscending(Tail(values), Tail(other), Tail(descending_orders))
         ELSE Head(values) < Head(other)

(* ExternalSortKey.__lt__, lines 343-352 *)
RECURSIVE ExternalSortKeyLt(_, _, _)
ExternalSortKeyLt(values, other, descending_orders) ==
    IF values = <<>> \/ other = <<>> \/ descending_orders = <<>> THEN FALSE
    ELSE LET v1 == Head(values)
             v2 == Head(other)
         IN  IF v1 = v2
             THEN ExternalSortKeyLt(Tail(values), Tail(other), Tail(descending_orders))
             ELSE IF Head(descending_orders) THEN v1 > v2 ELSE v1 < v2

EntryRow(es, e) == es.mmaped_batches[e[1]][e[2] + 1]

(* (sort_key, idx, row_idx, row) < (...): two ExternalSortKey objects are never
   ==, so the tuples are ordered by the sort keys' __lt__ alone *)
EntryLt(es, e1, e2) ==
    ExternalSortKeyLt(ExternalSortKey(EntryRow(es, e1), es.sorting_keys),
                      ExternalSortKey(EntryRow(es, e2), es.sorting_keys),
                      es.descending_orders)

(* heapq.heappop: an entry no other entry of the heap is less than *)
HeapMinima(es) == {e \in es.heap : \A o \in es.heap : ~EntryLt(es, o, e)}

(* lines 232-240: push the row after entry e of the same batch, if any *)
HeapPushNext(es, e) ==
    IF e[2] + 1 >= Len(es.mmaped_batches[e[1]]) THEN es.heap
    ELSE es.heap \cup {<<e[1], e[2] + 1>>}

(* the finally block, lines 249-252: unlink every recorded temporary file *)
Cleanup(files, temporay_files) ==
    [files EXCEPT !.existing = @ \ Range(temporay_files)]

(* NamedTemporaryFile(delete=False), line 289: a new file in the directory *)
CreateTemporaryFile(files) ==
    [existing |-> files.existing \cup {files.created + 1}, created |-> files.created + 1]

(* first next(): lines 179-181 *)
ExternalSortStart ==
    /\ extsort.pc = "created"
    /\ extsort' = [extsort EXCEPT !.pc = "run"]
    /\ UNCHANGED <<child, tmpdir, extsortRest, sqlRest>>

(* one turn of `for batch in self.child.batches()`, lines 182-192 *)
ExternalSortRun ==
    /\ extsort.pc = "run"
    /\ \/ (* the child raises: the finally block runs and the error goes up *)
          /\ ChildLive(child)
          /\ child' = [child EXCEPT !.state = "raised", !.reader_open = FALSE]
          /\ tmpdir' = Cleanup(tmpdir, extsort.temporay_files)
          /\ extsort' = [extsort EXCEPT !.pc = "error", !.fault = "child"]
       \/ (* the child is exhausted: on to the merge *)
          /\ ChildOffers(child) = {}
          /\ child' = ChildExhausted(child)
          /\ extsort' = [extsort EXCEPT !.pc = "seed"]
          /\ UNCHANGED tmpdir
       \/ \E batch \in ChildOffers(child) :
            LET sorted_batch == SortBy(batch, extsort.sorting)
                made == CreateTemporaryFile(tmpdir)
            IN  /\ child' = ChildYielded(child, batch)
                /\ \/ (* _memory_map_batch wrote and mapped the file *)
                      /\ tmpdir' = made
                      /\ extsort' =
                           [extsort EXCEPT
                              !.temporay_files = Append(@, made.created),
                              !.mmaped_batches = Append(@, sorted_batch)]
                   \/ (* the write fails after the file was created: the
                         name never reaches temporay_files *)
                      /\ tmpdir' = Cleanup(made, extsort.temporay_files)
                      /\ extsort' = [extsort EXCEPT !.pc = "error", !.fault = "write"]
    /\ UNCHANGED <<extsortRest, sqlRest>>

(* lines 197-217: seed the heap with the first row of every batch; indexing
   mmaped_batches[0] of no batch, or row 0 of an empty batch, raises *)
ExternalSortSeed ==
    /\ extsort.pc = "seed"
    /\ IF \/ extsort.mmaped_batches = <<>>
          \/ \E i \in DOMAIN extsort.mmaped_batches : extsort.mmaped_batches[i] = <<>>
       THEN /\ extsort' = [extsort EXCEPT !.pc = "error"]
            /\ tmpdir' = Cleanup(tmpdir, extsort.temporay_files)
       ELSE /\ extsort' = [extsort EXCEPT
                             !.pc = "merge",
                             !.heap = {<<i, 0>> : i \in DOMAIN extsort.mmaped_batches},
                             !.current_batch = <<>>]
            /\ UNCHANGED tmpdir
    /\ UNCHANGED <<child, extsortRest, sqlRest>>

(* one turn of `while heap`, lines 218-240, or the flush of lines 243-252 *)
ExternalSortMerge ==
    /\ extsort.pc = "merge"
    /\ IF extsort.heap # {}
       THEN \E e \in HeapMinima(extsort) :
              LET es == [extsort EXCEPT !.heap = @ \ {e},
                                        !.current_batch = Append(@, EntryRow(extsort, e)),
                                        !.popped = e]
              IN  /\ extsort' =
                        IF Len(es.current_batch) >= es.batch_size
                        THEN [es EXCEPT !.pc = "yield_chunk",
                                        !.out = Append(@, es.current_batch)]
                        ELSE [es EXCEPT !.heap = HeapPushNext(es, e)]
                  /\ UNCHANGED tmpdir
       ELSE IF Len(extsort.current_batch) > 0
            THEN /\ extsort' = [extsort EXCEPT !.pc = "yield_last",
                                               !.out = Append(@, extsort.current_batch)]
                 /\ UNCHANGED tmpdir
            ELSE /\ extsort' = [extsort EXCEPT !.pc = "done"]
                 /\ tmpdir' = Cleanup(tmpdir, extsort.temporay_files)
    /\ UNCHANGED <<child, extsortRest, sqlRest>>

(* next() while suspended: lines 230-240 after a chunk, the finally block
   after the last one *)
ExternalSortResume ==
    /\ \/ /\ extsort.pc = "yield_chunk"
          /\ extsort' = [extsort EXCEPT !.pc = "merge", !.current_batch = <<>>,
                                        !.heap = HeapPushNext(extsort, extsort.popped)]
          /\ UNCHANGED tmpdir
       \/ /\ extsort.pc = "yield_last"
          /\ extsort' = [extsort EXCEPT !.pc = "done"]
          /\ tmpdir' = Cleanup(tmpdir, extsort.temporay_files)
    /\ UNCHANGED <<child, extsortRest, sqlRest>>

(* close() by the consumer (PaginateNode's batches_generator.close()): a
   generator not yet started just ends; at a yield GeneratorExit is caught,
   the body returns and the finally block runs *)
ExternalSortClose ==
    /\ extsort.pc \in {"created", "yield_chunk", "yield_last"}
    /\ extsort' = [extsort EXCEPT !.pc = "done", !.closed = TRUE]
    /\ tmpdir' = Cleanup(tmpdir, extsort.temporay_files)
    /\ UNCHANGED <<child, extsortRest, sqlRest>>

InitExternalSort ==
    /\ \E batches \in SortInputs : child = NewChild(batches, FALSE)
    /\ \E cfg \in SortConfigs, batch_size \in 1..MaxSortBatchSize :
          /\ Len(cfg.keys) = Len(cfg.descending)
          /\ extsort = NewExternalSort(cfg.keys, cfg.descending, batch_size)
    /\ tmpdir = NoFiles
    /\ paginate = Idle
    /\ sort = Idle
    /\ filter = Idle
    /\ aggregate = Idle
    /\ join = Idle
    /\ project = Idle
    /\ expression_parser = Idle
    /\ parser = Idle
    /\ planner = Idle

NextExternalSort ==
    \/ ExternalSortStart
    \/ ExternalSortRun
    \/ ExternalSortSeed
    \/ ExternalSortMerge
    \/ ExternalSortResume
    \/ ExternalSortClose

SpecExternalSort == InitExternalSort /\ [][NextExternalSort]_vars

(***************************************************************************)
(* Inputs of the row-wise operators: rows <<id, v>>, id the row's place in *)
(* the whole stream, v its value in the column the expression reads.       *)
(***************************************************************************)
FilterValues == {0, 1}

RECURSIVE Numbered(_, _)
(* the values vs as rows numbered from lo *)
Numbered(vs, lo) ==
    IF vs = <<>> THEN <<>> ELSE <<<<lo, Head(vs)>>>> \o Numbered(Tail(vs), lo + 1)

FilterInputs ==
    UNION {Splits(Numbered(vs, 0), k) :
              vs \in SeqsUpTo(FilterValues, MaxRows), k \in 0..MaxInputBatches}

(* a predicate expression, by what it computes from a row's v: "true",
   "false" or "null", or "raise" when the kernel fails on that value (as an
   integer division does on a zero divisor) *)
Predicates == [FilterValues -> {"true", "false", "null", "raise"}]

(* Expression.apply(batch): the column of results, one per row *)
ExpressionApply(expression, batch) == [i \in DOMAIN batch |-> expression[batch[i][2]]]

(* the kernel raises when it fails on a value of the batch *)
ExpressionRaises(mask) == \E i \in DOMAIN mask : mask[i] = "raise"

RECURSIVE BatchFilterKeepNull(_, _)
(* a slip BatchFilter could have: keeping the rows whose mask is null *)
BatchFilterKeepNull(batch, mask) ==
    IF batch = <<>> THEN <<>>
    ELSE (IF Head(mask) # "false" THEN <<Head(batch)>> ELSE <<>>)
         \o BatchFilterKeepNull(Tail(batch), Tail(mask))

RECURSIVE BatchFilter(_, _)
(* RecordBatch.filter(mask): the rows whose mask is true, in order; a null
   mask drops the row *)
BatchFilter(batch, mask) ==
    IF batch = <<>> THEN <<>>
    ELSE (IF Head(mask) = "true" THEN <<Head(batch)>> ELSE <<>>)
         \o BatchFilter(Tail(batch), Tail(mask))

(***************************************************************************)
(* FilterNode (compute/filtering.py).                                      *)
(*   pc : created | yield (suspended at line 67) | done | error (an        *)
(*        exception left the generator)                                    *)
(*   requests : the next() calls the consumer has made                     *)
(***************************************************************************)
NewFilter(expression) ==
    [expression |-> expression, pc |-> "created", out |-> <<>>, requests |-> 0]

(* a slip FilterTurn could have: a failing predicate taken for a mask that
   selects nothing *)
FilterTurnSwallows(f, batch, mask) ==
    [f EXCEPT !.pc = "yield", !.requests = @ + 1,
              !.out = Append(@, BatchFilter(batch, mask))]

(* the generator after one turn of the loop on a batch of the child: line 66
   raises out of the generator, or line 67 yields the filtered batch *)
FilterTurn(f, batch, mask) ==
    IF ExpressionRaises(mask)
    THEN [f EXCEPT !.pc = "error", !.requests = @ + 1]
    ELSE [f EXCEPT !.pc = "yield", !.requests = @ + 1,
                   !.out = Append(@, BatchFilter(batch, mask))]

(* next(): one turn of `for batch in self.child.batches()`, lines 65-67; on
   a generator that returned or raised, next() is StopIteration at once *)
FilterNext ==
    /\ IF filter.pc \in {"done", "error"}
       THEN /\ filter.requests - child.pos < MaxIdleRequests
            /\ filter' = [filter EXCEPT !.requests = @ + 1]
            /\ child' = child
       ELSE /\ filter.pc \in {"created", "yield"}
            /\ IF ChildOffers(child) = {}
               THEN /\ child' = ChildExhausted(child)
                    /\ filter' = [filter EXCEPT !.pc = "done", !.requests = @ + 1]
               ELSE \E batch \in ChildOffers(child) :
                      /\ child' = ChildYielded(child, batch)
                      /\ filter' = FilterTurn(filter, batch,
                                              ExpressionApply(filter.expression, batch))
    /\ UNCHANGED <<filterRest, sqlRest>>

(* close() by the consumer: GeneratorExit leaves the for loop; the child
   generator the loop held is closed when the interpreter finalises it, at
   once or later *)
FilterClose ==
    /\ filter.pc \in {"created", "yield"}
    /\ filter' = [filter EXCEPT !.pc = "done"]
    /\ child' \in {child, ChildClose(child)}
    /\ UNCHANGED <<filterRest, sqlRest>>

InitFilter ==
    /\ \E batches \in FilterInputs : child = NewChild(batches, FALSE)
    /\ \E expression \in Predicates : filter = NewFilter(expression)
    /\ paginate = Idle
    /\ sort = Idle
    /\ extsort = Idle
    /\ tmpdir = NoFiles
    /\ aggregate = Idle
    /\ join = Idle
    /\ project = Idle
    /\ expression_parser = Idle
    /\ parser = Idle
    /\ planner = Idle

NextFilter == FilterNext \/ FilterClose

SpecFilter == InitFilter /\ [][NextFilter]_vars

(***************************************************************************)
(* AggregateNode (compute/aggregate.py).  A row is <<k1, k2, c>>: two key  *)
(* columns and the aggregated column.                                      *)
(*   chunks_data : the dict {key value: {name: [partial, ...]}} in         *)
(*        insertion order, as the list of its items [key, partials]        *)
(*   pc : created | consume (at the for statement of line 113 / 156) |     *)
(*        yield (suspended at line 139 / 196) | done                       *)
(***************************************************************************)
AggregateValues == {0, 1}

SummedValues == {1, 2}

AggregateRows ==
    {r \in AggregateValues \X AggregateValues \X SummedValues : r[2] <= r[1]}

AggregateInputs ==
    UNION {Splits(s, k) : s \in SeqsUpTo(AggregateRows, MaxRows), k \in 0..MaxInputBatches}

(* keys of the node: one column (the dictionary path) or two (the sorted path) *)
AggregateKeys == {<<1>>, <<1, 2>>}

SumAggregation(column) == [kind |-> "sum", column |-> column]

NewAggregate(keys, aggregations) ==
    [keys |-> keys, aggregations |-> aggregations, pc |-> "created",
     chunks_data |-> <<>>, out |-> <<>>]

(* batch.column(c) *)
Column(batch, c) == [i \in DOMAIN batch |-> batch[i][c]]

RECURSIVE SumSeq(_)
(* pc.sum of a column or of a list of partial sums *)
SumSeq(xs) == IF xs = <<>> THEN 0 ELSE Head(xs) + SumSeq(Tail(xs))

(* SimpleAggregation.compute_chunk, lines 285-286, with _aggregate of 295-296 *)
ComputeChunk(aggregation, batch) == SumSeq(Column(batch, aggregation.column))

(* a slip Reduce could have: keeping the first batch's partial only *)
ReduceFirstPartial(aggregation, chunks) == Head(chunks)

(* SimpleAggregation.reduce, lines 288-289 *)
Reduce(aggregation, chunks) == SumSeq(chunks)

RECURSIVE Unique(_, _)
(* the dictionary of dictionary_encode: distinct values, first seen first *)
Unique(column, seen) ==
    IF column = <<>> THEN seen
    ELSE Unique(Tail(column),
                IF Head(column) \in Range(seen) THEN seen ELSE Append(seen, Head(column)))

(* the place of value v in the dictionary, counted from 0 *)
DictionaryIndex(dictionary, v) ==
    (CHOOSE i \in DOMAIN dictionary : dictionary[i] = v) - 1

(* pc.dictionary_encode(key_column), lines 118-120 *)
DictionaryEncode(column) ==
    LET dictionary == Unique(column, <<>>)
    IN  [dictionary |-> dictionary,
         indices |-> [i \in DOMAIN column |-> DictionaryIndex(dictionary, column[i])]]

(* pc.equal(key_indices, idx) and pc.filter(batch, mask), lines 128-129 *)
RowsWithIndex(batch, key_indices, idx) ==
    BatchFilter(batch, [i \in DOMAIN batch |-> IF key_indices[i] = idx THEN "true" ELSE "false"])

(* chunks_data.setdefault(key, {}); chunks_data[key].setdefault(name, [])
   .append(partial), for each aggregation: lines 127-133 and 179-183 *)
AppendPartials(chunks_data, key, aggregations, chunk) ==
    LET partials == [n \in DOMAIN aggregations |-> ComputeChunk(aggregations[n], chunk)]
    IN  IF \E i \in DOMAIN chunks_data : chunks_data[i].key = key
        THEN [i \in DOMAIN chunks_data |->
                 IF chunks_data[i].key = key
                 THEN [chunks_data[i] EXCEPT
                          !.partials = [n \in DOMAIN aggregations |->
                                           Append(@[n], partials[n])]]
                 ELSE chunks_data[i]]
        ELSE Append(chunks_data,
                    [key |-> key,
                     partials |-> [n \in DOMAIN aggregations |-> <<partials[n]>>]])

RECURSIVE SingleKeyBatch(_, _, _, _, _, _)
(* the loop `for idx, keyval in enumerate(key_values)`, lines 126-133 *)
SingleKeyBatch(batch, key_values, key_indices, idx, aggregations, chunks_data) ==
    IF idx >= Len(key_values) THEN chunks_data
    ELSE SingleKeyBatch(batch, key_values, key_indices, idx + 1, aggregations,
                        AppendPartials(chunks_data, key_values[idx + 1], aggregations,
                                       RowsWithIndex(batch, key_indices, idx)))

(* the body of the for loop of single_key_aggregation, lines 117-133 *)
SingleKeyAggregation(a, batch) ==
    LET key_column == DictionaryEncode(Column(batch, a.keys[1]))
    IN  SingleKeyBatch(batch, key_column.dictionary, key_column.indices, 0,
                       a.aggregations, a.chunks_data)

(* tuple(sorted_batch.column(k)[row_index] for k in self.keys), line 171 *)
RowKey(row, keys) == [i \in DOMAIN keys |-> row[keys[i]]]

RECURSIVE MultiKeyScan(_, _, _, _, _, _, _)
(* the row loop of multi_key_aggregation, lines 170-194; current_key is
   <<>> for None and <<key>> once set *)
MultiKeyScan(sorted_batch, keys, row_index, current_key, chunk_start, aggregations, chunks_data) ==
    IF row_index >= Len(sorted_batch)
    THEN IF current_key # <<>>
         THEN AppendPartials(chunks_data, current_key[1], aggregations,
                             Slice(sorted_batch, chunk_start,
                                   Len(sorted_batch) - chunk_start))
         ELSE chunks_data
    ELSE LET row_key == RowKey(sorted_batch[row_index + 1], keys)
             key == IF current_key = <<>> THEN row_key ELSE current_key[1]
         IN  IF row_key # key
             THEN MultiKeyScan(sorted_batch, keys, row_index + 1, <<row_key>>, row_index,
                               aggregations,
                               AppendPartials(chunks_data, key, aggregations,
                                              Slice(sorted_batch, chunk_start,
                                                    row_index - chunk_start)))
             ELSE MultiKeyScan(sorted_batch, keys, row_index + 1, <<key>>, chunk_start,
                               aggregations, chunks_data)

(* the body of the for loop of multi_key_aggregation, lines 167-194 *)
MultiKeyAggregation(a, batch) ==
    LET sorting_key == [i \in DOMAIN a.keys |-> [col |-> a.keys[i], desc |-> FALSE]]
        sorted_batch == SortBy(batch, sorting_key)
    IN  MultiKeyScan(sorted_batch, a.keys, 0, <<>>, 0, a.aggregations, a.chunks_data)

(* reduce_aggregations, lines 198-242: one row per key of chunks_data, the
   key columns followed by one reduced column per aggregation *)
ReduceAggregations(a) ==
    [i \in DOMAIN a.chunks_data |->
        (IF Len(a.keys) = 1 THEN <<a.chunks_data[i].key>> ELSE a.chunks_data[i].key)
        \o [n \in DOMAIN a.aggregations |->
               Reduce(a.aggregations[n], a.chunks_data[i].partials[n])]]

(* first next(): batches() picks the path, lines 97-100, 112 / 154-155 *)
AggregateStart ==
    /\ aggregate.pc = "created"
    /\ aggregate' = [aggregate EXCEPT !.pc = "consume", !.chunks_data = <<>>]
    /\ UNCHANGED <<child, aggregateRest, sqlRest>>

(* one turn of `for batch in self.child.batches()`; when the child is
   exhausted, the yield of the reduced batch (lines 139 / 196) *)
AggregateConsume ==
    /\ aggregate.pc = "consume"
    /\ IF ChildOffers(child) = {}
       THEN /\ child' = ChildExhausted(child)
            /\ aggregate' = [aggregate EXCEPT !.pc = "yield",
                                              !.out = Append(@, ReduceAggregations(aggregate))]
       ELSE \E batch \in ChildOffers(child) :
              /\ child' = ChildYielded(child, batch)
              /\ aggregate' =
                    [aggregate EXCEPT
                       !.chunks_data =
                          IF Len(aggregate.keys) = 1
                          THEN SingleKeyAggregation(aggregate, batch)
                          ELSE MultiKeyAggregation(aggregate, batch)]
    /\ UNCHANGED <<aggregateRest, sqlRest>>

(* next() at the yield: the generator ends *)
AggregateResume ==
    /\ aggregate.pc = "yield"
    /\ aggregate' = [aggregate EXCEPT !.pc = "done"]
    /\ UNCHANGED <<child, aggregateRest, sqlRest>>

InitAggregate ==
    /\ \E batches \in AggregateInputs : child = NewChild(batches, FALSE)
    /\ \E keys \in AggregateKeys : aggregate = NewAggregate(keys, <<SumAggregation(3)>>)
    /\ paginate = Idle
    /\ sort = Idle
    /\ extsort = Idle
    /\ tmpdir = NoFiles
    /\ filter = Idle
    /\ join = Idle
    /\ project = Idle
    /\ expression_parser = Idle
    /\ parser = Idle
    /\ planner = Idle

NextAggregate == AggregateStart \/ AggregateConsume \/ AggregateResume

SpecAggregate == InitAggregate /\ [][NextAggregate]_vars

(***************************************************************************)
(* InnnerJoinNode (compute/join.py).  A left row is <<id, name>> and a     *)
(* right row <<id, age>>: the join key and one more column, which here     *)
(* holds the row's place in its input and so names the row.                *)
(*   pc : created | right (left_rb is built, line 177) | combine (both     *)
(*        are built, line 182) | yield (suspended at line 238) | done |    *)
(*        error (an exception left the generator)                          *)
(***************************************************************************)
JoinKeyValues == {1, 2}

(* the rows of one input whose key column is keys *)
JoinRows(keys) == [i \in DOMAIN keys |-> <<keys[i], i>>]

JoinInputs ==
    UNION {Splits(JoinRows(keys), k) :
              keys \in SeqsUpTo(JoinKeyValues, MaxRows), k \in 0..MaxInputBatches}

NewJoin(left_key, right_key, left_child, right_child) ==
    [left_key |-> left_key, right_key |-> right_key,
     left_child |-> left_child, right_child |-> right_child,
     pc |-> "created", left_rb |-> <<>>, right_rb |-> <<>>, out |-> <<>>]

(* pc.is_in(column, value_set) *)
IsIn(column, value_set) ==
    [i \in DOMAIN column |-> IF column[i] \in Range(value_set) THEN "true" ELSE "false"]

(* lines 198-211: the rows of one side whose key occurs on the other side *)
FilteredSide(rb, key, other_key_values) ==
    BatchFilter(rb, IsIn(Column(rb, key), other_key_values))

(* lines 217-222: rb.take(pc.sort_indices(rb.column(key))) *)
SortedSide(rb, key) == SortBy(rb, <<[col |-> key, desc |-> FALSE]>>)

(* lines 225-237: the columns of the left side, then those of the right
   side but its key; row i of the batch is row i of each column *)
CombinedData(sorted_left_rb, sorted_right_rb, right_key) ==
    [i \in DOMAIN sorted_left_rb |->
        sorted_left_rb[i]
        \o [c \in 1..(Len(sorted_right_rb[i]) - 1) |->
               sorted_right_rb[i][IF c < right_key THEN c ELSE c + 1]]]

(* pa.Table.from_batches(child.batches()).combine_chunks().to_batches()[0],
   lines 173-182: raises without a batch; a table without rows may have no
   batch to index or one empty batch *)
CollectOutcomes(batches) ==
    IF batches = <<>> THEN {[ok |-> FALSE, rb |-> <<>>]}
    ELSE IF Flatten(batches) = <<>>
         THEN {[ok |-> FALSE, rb |-> <<>>], [ok |-> TRUE, rb |-> <<>>]}
         ELSE {[ok |-> TRUE, rb |-> Flatten(batches)]}

(* first next(): lines 173-177 *)
JoinCollectLeft ==
    /\ join.pc = "created"
    /\ \E o \in CollectOutcomes(join.left_child) :
          join' = IF o.ok THEN [join EXCEPT !.pc = "right", !.left_rb = o.rb]
                  ELSE [join EXCEPT !.pc = "error"]
    /\ UNCHANGED <<joinRest, sqlRest>>

(* lines 178-182 *)
JoinCollectRight ==
    /\ join.pc = "right"
    /\ \E o \in CollectOutcomes(join.right_child) :
          join' = IF o.ok THEN [join EXCEPT !.pc = "combine", !.right_rb = o.rb]
                  ELSE [join EXCEPT !.pc = "error"]
    /\ UNCHANGED <<joinRest, sqlRest>>

(* lines 184-238; pa.record_batch raises on columns of unequal lengths *)
JoinCombine ==
    /\ join.pc = "combine"
    /\ LET left_key_values == Unique(Column(join.left_rb, join.left_key), <<>>)
           right_key_values == Unique(Column(join.right_rb, join.right_key), <<>>)
           filtered_left_rb == FilteredSide(join.left_rb, join.left_key, right_key_values)
           filtered_right_rb == FilteredSide(join.right_rb, join.right_key, left_key_values)
           sorted_left_rb == SortedSide(filtered_left_rb, join.left_key)
           sorted_right_rb == SortedSide(filtered_right_rb, join.right_key)
       IN  join' =
             IF Len(sorted_left_rb) # Len(sorted_right_rb)
             THEN [join EXCEPT !.pc = "error"]
             ELSE [join EXCEPT
                     !.pc = "yield",
                     !.out = Append(@, CombinedData(sorted_left_rb, sorted_right_rb,
                                                    join.right_key))]
    /\ UNCHANGED <<joinRest, sqlRest>>

(* next() at the yield: the generator ends *)
JoinResume ==
    /\ join.pc = "yield"
    /\ join' = [join EXCEPT !.pc = "done"]
    /\ UNCHANGED <<joinRest, sqlRest>>

InitJoin ==
    /\ \E left_child \in JoinInputs, right_child \in JoinInputs :
          join = NewJoin(1, 1, left_child, right_child)
    /\ child = Idle
    /\ paginate = Idle
    /\ sort = Idle
    /\ extsort = Idle
    /\ tmpdir = NoFiles
    /\ filter = Idle
    /\ aggregate = Idle
    /\ project = Idle
    /\ expression_parser = Idle
    /\ parser = Idle
    /\ planner = Idle

NextJoin == JoinCollectLeft \/ JoinCollectRight \/ JoinCombine \/ JoinResume

SpecJoin == InitJoin /\ [][NextJoin]_vars

(***************************************************************************)
(* ProjectNode (compute/selection.py).  A child batch has the columns a    *)
(* and b; inside the node a batch is [names, rows]: the column names in    *)
(* order and the rows as tuples in that order.                             *)
(*   select : <<"None">> for None, else <<"list", names>>                  *)
(*   project : the dict {name: expression} in insertion order, as the list *)
(*        of its items [name, expr]                                        *)
(*   pc : created | yield (suspended at line 82) | done | error (an        *)
(*        exception left the generator)                                    *)
(***************************************************************************)
ChildSchema == <<"a", "b">>

ProjectRows == {<<a, a + 1>> : a \in {0, 1}}

ProjectInputs ==
    UNION {Splits(s, k) : s \in SeqsUpTo(ProjectRows, MaxRows), k \in 0..MaxInputBatches}

ColumnRef(name) == [kind |-> "ColumnRef", name |-> name, args |-> <<>>]

FunctionCallExpression(func, args) == [kind |-> "FunctionCall", name |-> func, args |-> args]

ProjectExpressions ==
    {ColumnRef("a"),
     FunctionCallExpression("add", <<ColumnRef("a"), ColumnRef("b")>>),
     FunctionCallExpression("add", <<ColumnRef("x"), ColumnRef("b")>>),
     FunctionCallExpression("divide", <<ColumnRef("b"), ColumnRef("a")>>)}

ProjectedNames == {"x", "y", "a"}

(* the dicts of at most two items over ProjectedNames and ProjectExpressions *)
Projections ==
    {<<>>}
    \cup {<<[name |-> n, expr |-> e]>> : n \in ProjectedNames, e \in ProjectExpressions}
    \cup {d \in {<<[name |-> n1, expr |-> e1], [name |-> n2, expr |-> e2]>> :
                      n1 \in ProjectedNames, n2 \in ProjectedNames,
                      e1 \in ProjectExpressions, e2 \in ProjectExpressions} :
             d[1].name # d[2].name}

Selects == {<<"None">>, <<"list", <<>>>>, <<"list", <<"a">>>>, <<"list", <<"b", "a">>>>}

ProjectKeys(project_dict) == [k \in DOMAIN project_dict |-> project_dict[k].name]

(* a slip RestrictColumns could have: the projected names left out *)
RestrictColumnsSelectOnly(select, project_dict) == select

(* ProjectNode.__init__, lines 55-61 *)
RestrictColumns(select, project_dict) ==
    IF select = <<"None">> THEN select
    ELSE <<"list", select[2] \o ProjectKeys(project_dict)>>

NewProject(select, project_dict) ==
    [select |-> select, project |-> project_dict,
     restrict_columns |-> RestrictColumns(select, project_dict),
     pc |-> "created", out |-> <<>>, requests |-> 0]

(* the batch the child yields, with its schema *)
RecordBatch(rows) == [names |-> ChildSchema, rows |-> rows]

Raised == [ok |-> FALSE]

(* batch.column(name): the one column of that name; raises when the name is
   missing or occurs twice *)
BatchColumn(batch, name) ==
    LET found == {c \in DOMAIN batch.names : batch.names[c] = name}
    IN  IF Cardinality(found) # 1 THEN Raised
        ELSE [ok |-> TRUE,
              values |-> [i \in DOMAIN batch.rows |->
                             batch.rows[i][CHOOSE c \in found : TRUE]]]

(* pc.add of two columns of one batch *)
AddColumns(left, right) == [i \in DOMAIN left |-> left[i] + right[i]]

(* pc.divide of two integer columns of one batch: raises on a zero divisor *)
DivideColumns(left, right) ==
    IF \E i \in DOMAIN right : right[i] = 0 THEN Raised
    ELSE [ok |-> TRUE, values |-> [i \in DOMAIN left |-> left[i] \div right[i]]]

(* the call of self.func on the argument columns, expressions.py 79 *)
CallFunction(func, left, right) ==
    IF func = "divide" THEN DivideColumns(left, right)
    ELSE [ok |-> TRUE, values |-> AddColumns(left, right)]

(* ColumnRef.apply (base.py 145-147) and FunctionCallExpression.apply
   (expressions.py 68-79) for a function of two column references *)
Apply(expr, batch) ==
    IF expr.kind = "ColumnRef" THEN BatchColumn(batch, expr.name)
    ELSE LET left == BatchColumn(batch, expr.args[1].name)
             right == BatchColumn(batch, expr.args[2].name)
         IN  IF left.ok /\ right.ok
             THEN CallFunction(expr.name, left.values, right.values)
             ELSE Raised

(* batch.append_column(name, values) *)
AppendColumn(batch, name, values) ==
    [names |-> Append(batch.names, name),
     rows |-> [i \in DOMAIN batch.rows |-> Append(batch.rows[i], values[i])]]

RECURSIVE ApplyProjections(_, _, _)
(* the loop `for name, expr in self.project.items()`, lines 76-77, from
   item k on *)
ApplyProjections(project_dict, k, batch) ==
    IF k > Len(project_dict) THEN [ok |-> TRUE, batch |-> batch]
    ELSE LET column == Apply(project_dict[k].expr, batch)
         IN  IF column.ok
             THEN ApplyProjections(project_dict, k + 1,
                                   AppendColumn(batch, project_dict[k].name, column.values))
             ELSE Raised

(* batch.select(names), line 80: raises when a name is missing or occurs
   twice in the batch *)
BatchSelect(batch, names) ==
    LET index(n) == {c \in DOMAIN batch.names : batch.names[c] = names[n]}
    IN  IF \E n \in DOMAIN names : Cardinality(index(n)) # 1 THEN Raised
        ELSE [ok |-> TRUE,
              batch |-> [names |-> names,
                         rows |-> [i \in DOMAIN batch.rows |->
                                      [n \in DOMAIN names |->
                                          batch.rows[i][CHOOSE c \in index(n) : TRUE]]]]]

(* the body of the for loop of ProjectNode.batches, lines 76-80 *)
ProjectBatch(p, child_batch) ==
    LET projected == ApplyProjections(p.project, 1, RecordBatch(child_batch))
    IN  IF ~projected.ok THEN Raised
        ELSE IF p.restrict_columns = <<"None">> THEN projected
        ELSE BatchSelect(projected.batch, p.restrict_columns[2])

(* the generator after one turn of the loop: an exception of lines 76-80
   leaves the generator, or line 82 yields the batch *)
ProjectTurn(p, result) ==
    IF result.ok
    THEN [p EXCEPT !.pc = "yield", !.requests = @ + 1, !.out = Append(@, result.batch)]
    ELSE [p EXCEPT !.pc = "error", !.requests = @ + 1]

(* next(): one turn of `for batch in self.child.batches()`, lines 75-82; on
   a generator that returned or raised, next() is StopIteration at once *)
ProjectNext ==
    /\ IF project.pc \in {"done", "error"}
       THEN /\ project.requests - child.pos < MaxIdleRequests
            /\ project' = [project EXCEPT !.requests = @ + 1]
            /\ child' = child
       ELSE /\ project.pc \in {"created", "yield"}
            /\ IF ChildOffers(child) = {}
               THEN /\ child' = ChildExhausted(child)
                    /\ project' = [project EXCEPT !.pc = "done", !.requests = @ + 1]
               ELSE \E batch \in ChildOffers(child) :
                      /\ child' = ChildYielded(child, batch)
                      /\ project' = ProjectTurn(project, ProjectBatch(project, batch))
    /\ UNCHANGED <<projectRest, sqlRest>>

(* close() by the consumer: GeneratorExit leaves the for loop; the child
   generator the loop held is closed when the interpreter finalises it, at
   once or later *)
ProjectClose ==
    /\ project.pc \in {"created", "yield"}
    /\ project' = [project EXCEPT !.pc = "done"]
    /\ child' \in {child, ChildClose(child)}
    /\ UNCHANGED <<projectRest, sqlRest>>

InitProject ==
    /\ \E batches \in ProjectInputs : child = NewChild(batches, FALSE)
    /\ \E select \in Selects, project_dict \in Projections :
          project = NewProject(select, project_dict)
    /\ paginate = Idle
    /\ sort = Idle
    /\ extsort = Idle
    /\ tmpdir = NoFiles
    /\ filter = Idle
    /\ aggregate = Idle
    /\ join = Idle
    /\ expression_parser = Idle
    /\ parser = Idle
    /\ planner = Idle

NextProject == ProjectNext \/ ProjectClose

SpecProject == InitProject /\ [][NextProject]_vars

(***************************************************************************)
(* The two operators that stream batch by batch, each over its own child.  *)
(***************************************************************************)
InitStreaming == InitFilter \/ InitProject

NextStreaming == NextFilter \/ NextProject

SpecStreaming == InitStreaming /\ [][NextStreaming]_vars

(***************************************************************************)
(* SQL tokens (sql/tokenize.py).  A token is [kind, value]: kind is the    *)
(* token class and value the text the class stores, a text being the       *)
(* sequence of its characters; keyword and operator values are stored in   *)
(* upper case.  An optional value is <<>> for None and <<v>> for v.        *)
(***************************************************************************)
None == <<>>

Some(v) == <<v>>

Token(kind, value) == [kind |-> kind, value |-> value]

EOFToken == Token("EOFToken", <<"E", "O", "F">>)

OperatorToken(value) == Token("OperatorToken", value)

PunctuationToken(value) == Token("PunctuationToken", value)

IdentifierToken(value) == Token("IdentifierToken", value)

LiteralToken(value) == Token("LiteralToken", value)

(* the token at 0-based position pos, EOFToken() beyond the end: advance() *)
CurrentToken(tokens, pos) == IF pos < Len(tokens) THEN tokens[pos + 1] ELSE EOFToken

(***************************************************************************)
(* ExpressionParser (sql/expressions.py).  Each parse method is an         *)
(* operator from the tokens and the position self.pos to [ok, pos, ast]:   *)
(* the position reached and the AST, or ok = FALSE when SQLExpressionError *)
(* was raised.                                                             *)
(***************************************************************************)
Parsed(pos, ast) == [ok |-> TRUE, pos |-> pos, ast |-> ast]

SQLExpressionError(pos, message) ==
    [ok |-> FALSE, pos |-> pos, ast |-> [type |-> "SQLExpressionError", value |-> <<message>>]]

IsOperator(tokens, pos, ops) ==
    /\ CurrentToken(tokens, pos).kind = "OperatorToken"
    /\ CurrentToken(tokens, pos).value \in ops

IsPunctuation(tokens, pos, chars) ==
    /\ CurrentToken(tokens, pos).kind = "PunctuationToken"
    /\ CurrentToken(tokens, pos).value \in chars

Digits == <<"0", "1", "2", "3", "4", "5", "6", "7", "8", "9">>

DigitValue(c) == (CHOOSE i \in DOMAIN Digits : Digits[i] = c) - 1

RECURSIVE IntOf(_)
(* int(value) for a text of decimal digits *)
IntOf(value) ==
    IF value = <<>> THEN 0
    ELSE 10 * IntOf(SubSeq(value, 1, Len(value) - 1)) + DigitValue(value[Len(value)])

(* cast_literal, lines 335-351: a quoted text loses its quotes, a text of
   digits becomes an int, any other text a float or itself *)
CastLiteral(value) ==
    IF value[1] = value[Len(value)] /\ value[Len(value)] \in {"'", "\""}
    THEN <<"str", SubSeq(value, 2, Len(value) - 1)>>
    ELSE IF \A i \in DOMAIN value : value[i] \in Range(Digits)
         THEN <<"int", IntOf(value)>>
         ELSE <<"float", value>>

RECURSIVE ParseExpression(_, _), ParseExpressionWhile(_, _, _), ParseExpressionRight(_, _, _, _),
          ParseTerm(_, _), ParseTermWhile(_, _, _), ParseTermRight(_, _, _, _),
          ParseFactor(_, _), ParseComparison(_, _),
          ParseAdditiveExpr(_, _), ParseAdditiveExprWhile(_, _, _), ParseAdditiveExprRight(_, _, _, _),
          ParseMultiplicativeExpr(_, _), ParseMultiplicativeExprWhile(_, _, _),
          ParseMultiplicativeExprRight(_, _, _, _),
          ParseUnaryExpr(_, _), ParsePrimary(_, _), ParseAtom(_, _),
          ParseFunctionCall(_, _, _), ParseFunctionCallArgs(_, _, _)

(* the node of a binary operator at pos over left and the parsed right *)
BinaryOf(type, tokens, pos, left, right) ==
    [type |-> type, op |-> CurrentToken(tokens, pos).value, left |-> left, right |-> right.ast]

(* the node of a unary operator over a parsed operand, or the operand's error *)
UnaryOf(op, operand) ==
    IF ~operand.ok THEN operand
    ELSE Parsed(operand.pos, [type |-> "unary_op", op |-> op, operand |-> operand.ast])

(* the body of the while loop of parse_expression, lines 149-152, with the
   right term parsed *)
ParseExpressionRight(tokens, pos, term, right) ==
    IF ~right.ok THEN right
    ELSE ParseExpressionWhile(tokens, right.pos, BinaryOf("conjunction", tokens, pos, term, right))

(* the while loop of parse_expression, lines 148-152 *)
ParseExpressionWhile(tokens, pos, term) ==
    IF IsOperator(tokens, pos, {<<"O", "R">>})
    THEN ParseExpressionRight(tokens, pos, term, ParseTerm(tokens, pos + 1))
    ELSE Parsed(pos, term)

(* parse_expression after its first term *)
ParseExpressionLoop(tokens, term) ==
    IF ~term.ok THEN term ELSE ParseExpressionWhile(tokens, term.pos, term.ast)

(* parse_expression, lines 139-153 *)
ParseExpression(tokens, pos) == ParseExpressionLoop(tokens, ParseTerm(tokens, pos))

(* the body of the while loop of parse_term, lines 165-168, with the right
   factor parsed *)
ParseTermRight(tokens, pos, factor, right) ==
    IF ~right.ok THEN right
    ELSE ParseTermWhile(tokens, right.pos, BinaryOf("conjunction", tokens, pos, factor, right))

(* the while loop of parse_term, lines 164-168 *)
ParseTermWhile(tokens, pos, factor) ==
    IF IsOperator(tokens, pos, {<<"A", "N", "D">>})
    THEN ParseTermRight(tokens, pos, factor, ParseFactor(tokens, pos + 1))
    ELSE Parsed(pos, factor)

(* parse_term after its first factor *)
ParseTermLoop(tokens, factor) ==
    IF ~factor.ok THEN factor ELSE ParseTermWhile(tokens, factor.pos, factor.ast)

(* parse_term, lines 155-169 *)
ParseTerm(tokens, pos) == ParseTermLoop(tokens, ParseFactor(tokens, pos))

(* a slip ParseFactor could have: NOT taking a primary, not a factor *)
ParseFactorNotPrimary(tokens, pos) ==
    IF IsOperator(tokens, pos, {<<"N", "O", "T">>})
    THEN UnaryOf(<<"N", "O", "T">>, ParsePrimary(tokens, pos + 1))
    ELSE ParseComparison(tokens, pos)

(* parse_factor, lines 171-184 *)
ParseFactor(tokens, pos) ==
    IF IsOperator(tokens, pos, {<<"N", "O", "T">>})
    THEN UnaryOf(<<"N", "O", "T">>, ParseFactor(tokens, pos + 1))
    ELSE ParseComparison(tokens, pos)

(* parse_comparison, lines 194-201, with the right side parsed *)
ParseComparisonRight(tokens, left, right) ==
    IF ~right.ok THEN right
    ELSE Parsed(right.pos, BinaryOf("comparison", tokens, left.pos, left.ast, right))

(* parse_comparison, lines 190-202, with the left side parsed *)
ParseComparisonLeft(tokens, left) ==
    IF ~left.ok THEN left
    ELSE IF IsOperator(tokens, left.pos, {<<"=">>, <<"<">>, <<">">>, <<"<", "=">>, <<">", "=">>, <<"<", ">">>, <<"!", "=">>})
    THEN ParseComparisonRight(tokens, left, ParseAdditiveExpr(tokens, left.pos + 1))
    ELSE left

(* parse_comparison, lines 186-202 *)
ParseComparison(tokens, pos) == ParseComparisonLeft(tokens, ParseAdditiveExpr(tokens, pos))

(* the body of the while loop of parse_additive_expr, lines 214-217, with the
   right operand parsed *)
ParseAdditiveExprRight(tokens, pos, expr, right) ==
    IF ~right.ok THEN right
    ELSE ParseAdditiveExprWhile(tokens, right.pos, BinaryOf("binary_op", tokens, pos, expr, right))

(* the while loop of parse_additive_expr, lines 213-217 *)
ParseAdditiveExprWhile(tokens, pos, expr) ==
    IF IsOperator(tokens, pos, {<<"+">>, <<"-">>})
    THEN ParseAdditiveExprRight(tokens, pos, expr, ParseMultiplicativeExpr(tokens, pos + 1))
    ELSE Parsed(pos, expr)

(* parse_additive_expr after its first operand *)
ParseAdditiveExprLoop(tokens, expr) ==
    IF ~expr.ok THEN expr ELSE ParseAdditiveExprWhile(tokens, expr.pos, expr.ast)

(* parse_additive_expr, lines 204-218 *)
ParseAdditiveExpr(tokens, pos) ==
    ParseAdditiveExprLoop(tokens, ParseMultiplicativeExpr(tokens, pos))

(* the body of the while loop of parse_multiplicative_expr, lines 230-233,
   with the right operand parsed *)
ParseMultiplicativeExprRight(tokens, pos, expr, right) ==
    IF ~right.ok THEN right
    ELSE ParseMultiplicativeExprWhile(tokens, right.pos,
                                      BinaryOf("binary_op", tokens, pos, expr, right))

(* the while loop of parse_multiplicative_expr, lines 229-233 *)
ParseMultiplicativeExprWhile(tokens, pos, expr) ==
    IF IsOperator(tokens, pos, {<<"*">>, <<"/">>})
    THEN ParseMultiplicativeExprRight(tokens, pos, expr, ParseUnaryExpr(tokens, pos + 1))
    ELSE Parsed(pos, expr)

(* parse_multiplicative_expr after its first operand *)
ParseMultiplicativeExprLoop(tokens, expr) ==
    IF ~expr.ok THEN expr ELSE ParseMultiplicativeExprWhile(tokens, expr.pos, expr.ast)

(* parse_multiplicative_expr, lines 220-234 *)
ParseMultiplicativeExpr(tokens, pos) ==
    ParseMultiplicativeExprLoop(tokens, ParseUnaryExpr(tokens, pos))

(* parse_unary_expr, lines 236-247 *)
ParseUnaryExpr(tokens, pos) ==
    IF IsOperator(tokens, pos, {<<"-">>})
    THEN UnaryOf(CurrentToken(tokens, pos).value, ParseUnaryExpr(tokens, pos + 1))
    ELSE ParsePrimary(tokens, pos)

(* parse_primary, lines 259-265, with the expression in the parentheses
   parsed *)
Parenthesised(tokens, expr) ==
    IF ~expr.ok THEN expr
    ELSE IF ~IsPunctuation(tokens, expr.pos, {<<")">>})
    THEN SQLExpressionError(expr.pos, "Expected ')'")
    ELSE Parsed(expr.pos + 1, expr.ast)

(* parse_primary, lines 249-267 *)
ParsePrimary(tokens, pos) ==
    IF IsPunctuation(tokens, pos, {<<"(">>})
    THEN Parenthesised(tokens, ParseExpression(tokens, pos + 1))
    ELSE ParseAtom(tokens, pos)

(* parse_atom, lines 269-289 *)
ParseAtom(tokens, pos) ==
    LET token == CurrentToken(tokens, pos)
    IN  IF token.kind = "IdentifierToken"
        THEN IF IsPunctuation(tokens, pos + 1, {<<"(">>})
             THEN ParseFunctionCall(tokens, pos + 1, token.value)
             ELSE Parsed(pos + 1, [type |-> "identifier", value |-> token.value])
        ELSE IF token.kind = "LiteralToken"
             THEN Parsed(pos + 1, [type |-> "literal", value |-> CastLiteral(token.value)])
             ELSE SQLExpressionError(pos, "Unexpected token")

(* the `while True` loop of parse_function_call, lines 304-310, with the
   argument parsed *)
ParseFunctionCallArg(tokens, args, arg) ==
    IF ~arg.ok THEN arg
    ELSE IF IsPunctuation(tokens, arg.pos, {<<",">>})
    THEN ParseFunctionCallArgs(tokens, arg.pos + 1, Append(args, arg.ast))
    ELSE Parsed(arg.pos, Append(args, arg.ast))

(* the `while True` loop of parse_function_call, lines 304-310 *)
ParseFunctionCallArgs(tokens, pos, args) ==
    ParseFunctionCallArg(tokens, args, ParseExpression(tokens, pos))

(* parse_function_call, lines 311-314, with the arguments parsed *)
FunctionCallOf(tokens, function_name, args) ==
    IF ~args.ok THEN args
    ELSE IF ~IsPunctuation(tokens, args.pos, {<<")">>})
    THEN SQLExpressionError(args.pos, "Expected ')'")
    ELSE Parsed(args.pos + 1,
                [type |-> "function_call", name |-> function_name, args |-> args.ast])

(* parse_function_call, lines 291-314; pos is at the '(' *)
ParseFunctionCall(tokens, pos, function_name) ==
    FunctionCallOf(tokens, function_name,
                   IF IsPunctuation(tokens, pos + 1, {<<")">>}) THEN Parsed(pos + 1, <<>>)
                   ELSE ParseFunctionCallArgs(tokens, pos + 1, <<>>))

(* ExpressionParser(tokens).parse(), lines 103-111 and 126-137 *)
ExpressionParserParse(tokens) ==
    IF tokens = <<>> THEN SQLExpressionError(0, "Empty expression.")
    ELSE ParseExpression(tokens, 0)

(***************************************************************************)
(* Tokenizer (sql/tokenize.py).  A text is the sequence of its characters; *)
(* positions in a text are counted from 1.                                 *)
(***************************************************************************)
Lowercase == <<"a", "b", "c", "d", "e", "f", "g", "h", "i", "j", "k", "l", "m", "n", "o", "p", "q", "r", "s", "t", "u", "v", "w", "x", "y", "z">>

Uppercase == <<"A", "B", "C", "D", "E", "F", "G", "H", "I", "J", "K", "L", "M", "N", "O", "P", "Q", "R", "S", "T", "U", "V", "W", "X", "Y", "Z">>

(* str.upper() and str.lower(), one character at a time *)
ToUpper == [c \in Range(Lowercase) |-> Uppercase[CHOOSE i \in DOMAIN Lowercase : Lowercase[i] = c]]

ToLower == [c \in Range(Uppercase) |-> Lowercase[CHOOSE i \in DOMAIN Uppercase : Uppercase[i] = c]]

UpperChar(c) == IF c \in DOMAIN ToUpper THEN ToUpper[c] ELSE c

LowerChar(c) == IF c \in DOMAIN ToLower THEN ToLower[c] ELSE c

Upper(text) == [i \in DOMAIN text |-> UpperChar(text[i])]

Lower(text) == [i \in DOMAIN text |-> LowerChar(text[i])]

IsLetter(c) == c \in DOMAIN ToUpper \/ c \in DOMAIN ToLower

IsDigit(c) == c \in Range(Digits)

(* \w and \s of the regular expressions *)
IsWordChar(c) == IsLetter(c) \/ IsDigit(c) \/ c = "_"

IsSpace(c) == c \in {" ", "\t", "\n"}

(* the alternatives of KEYWORD, in the order of the pattern, each with the
   class of keyword_token_classes *)
Keywords ==
    <<[word |-> <<"S", "E", "L", "E", "C", "T">>, class |-> "SelectToken"],
      [word |-> <<"I", "N", "S", "E", "R", "T">>, class |-> "InsertToken"],
      [word |-> <<"U", "P", "D", "A", "T", "E">>, class |-> "UpdateToken"],
      [word |-> <<"F", "R", "O", "M">>, class |-> "FromToken"],
      [word |-> <<"W", "H", "E", "R", "E">>, class |-> "WhereToken"],
      [word |-> <<"G", "R", "O", "U", "P", " ", "B", "Y">>, class |-> "GroupByToken"],
      [word |-> <<"O", "R", "D", "E", "R", " ", "B", "Y">>, class |-> "OrderByToken"],
      [word |-> <<"A", "S", "C">>, class |-> "SortingOrderToken"],
      [word |-> <<"D", "E", "S", "C">>, class |-> "SortingOrderToken"],
      [word |-> <<"L", "I", "M", "I", "T">>, class |-> "LimitToken"],
      [word |-> <<"O", "F", "F", "S", "E", "T">>, class |-> "OffsetToken"],
      [word |-> <<"A", "S">>, class |-> "AliasToken"]>>

(* the keywords of joins and the token classes parser.py imports for them *)
JoinKeywords ==
    <<[word |-> <<"J", "O", "I", "N">>, class |-> "JoinToken"],
      [word |-> <<"O", "N">>, class |-> "JoinOnToken"],
      [word |-> <<"I", "N", "N", "E", "R">>, class |-> "JoinTypeToken"],
      [word |-> <<"L", "E", "F", "T">>, class |-> "JoinTypeToken"],
      [word |-> <<"R", "I", "G", "H", "T">>, class |-> "JoinTypeToken"],
      [word |-> <<"F", "U", "L", "L">>, class |-> "JoinTypeToken"],
      [word |-> <<"C", "R", "O", "S", "S">>, class |-> "JoinTypeToken"],
      [word |-> <<"N", "A", "T", "U", "R", "A", "L">>, class |-> "JoinTypeToken"]>>

(* the alternatives of OPERATOR, in the order of the pattern *)
Operators ==
    <<<<"<", ">">>, <<"<", "=">>, <<">", "=">>, <<"!", "=">>, <<"=", "=">>, <<"=">>,
      <<"<">>, <<">">>, <<"+">>, <<"-">>, <<"*">>, <<"/">>>>

TextOperators == <<<<"A", "N", "D">>, <<"O", "R">>, <<"N", "O", "T">>>>

(* re.IGNORECASE: the word is at pos of the text, in any case *)
WordAt(text, pos, word) ==
    /\ pos + Len(word) - 1 <= Len(text)
    /\ \A i \in DOMAIN word : UpperChar(text[pos + i - 1]) = UpperChar(word[i])

(* \b at pos: exactly one of the characters before and at pos is of \w *)
WordBoundary(text, pos) ==
    (pos > 1 /\ IsWordChar(text[pos - 1])) # (pos <= Len(text) /\ IsWordChar(text[pos]))

RECURSIVE RunEnd(_, _, _)
(* the position after the longest run from pos of characters that are
   spaces (class "s"), digits ("d") or identifier characters ("i") *)
RunEnd(text, pos, class) ==
    IF pos <= Len(text)
       /\ CASE class = "s" -> IsSpace(text[pos])
            [] class = "d" -> IsDigit(text[pos])
            [] OTHER -> IsWordChar(text[pos]) \/ text[pos] = "."
    THEN RunEnd(text, pos + 1, class) ELSE pos

RECURSIVE QuoteEnd(_, _, _)
(* the position after the closing quote of the string opened before pos,
   0 when it is not closed *)
QuoteEnd(text, pos, quote) ==
    IF pos > Len(text) THEN 0
    ELSE IF text[pos] = quote THEN pos + 1
    ELSE QuoteEnd(text, pos + 1, quote)

(* the end of \d+(\.\d+)? at pos *)
NumberEnd(text, pos) ==
    LET whole == RunEnd(text, pos, "d")
    IN  IF whole < Len(text) /\ text[whole] = "." /\ IsDigit(text[whole + 1])
        THEN RunEnd(text, whole + 1, "d") ELSE whole

(* TOKENIZATION_REGEX.match(text, pos): [kind, end, class] of the first
   alternative that matches at pos, class being the token class of a
   keyword; end is the position after the match *)
NextMatch(text, pos) ==
    LET c == text[pos]
        words == Keywords \o JoinKeywords
        keywords == {i \in DOMAIN words : WordAt(text, pos, words[i].word)}
        text_operators == {i \in DOMAIN TextOperators :
                              /\ WordAt(text, pos, TextOperators[i])
                              /\ WordBoundary(text, pos)
                              /\ WordBoundary(text, pos + Len(TextOperators[i]))}
        operators_ == {i \in DOMAIN Operators : WordAt(text, pos, Operators[i])}
        First(found) == CHOOSE i \in found : \A j \in found : i <= j
        Match(kind, end, class) == [kind |-> kind, end |-> end, class |-> class]
    IN  IF keywords # {}
        THEN Match("KEYWORD", pos + Len(words[First(keywords)].word),
                   words[First(keywords)].class)
        ELSE IF text_operators # {}
        THEN Match("TEXT_OPERATOR", pos + Len(TextOperators[First(text_operators)]), "")
        ELSE IF operators_ # {}
        THEN Match("OPERATOR", pos + Len(Operators[First(operators_)]), "")
        ELSE IF IsLetter(c) \/ c = "_" THEN Match("IDENTIFIER", RunEnd(text, pos, "i"), "")
        ELSE IF c \in {"'", "\""} /\ QuoteEnd(text, pos + 1, c) # 0
        THEN Match("LITERAL", QuoteEnd(text, pos + 1, c), "")
        ELSE IF IsDigit(c) THEN Match("LITERAL", NumberEnd(text, pos), "")
        ELSE IF c \in {",", "(", ")", ";"} THEN Match("PUNCTUATION", pos + 1, "")
        ELSE IF IsSpace(c) THEN Match("SKIP", RunEnd(text, pos, "s"), "")
        ELSE Match("MISMATCH", pos + 1, "")

(* KeywordToken and OperatorToken keep their value in upper case *)
KeywordToken(class, value) == Token(class, Upper(value))

Tokenized(tokens) == [ok |-> TRUE, tokens |-> tokens]

SQLTokenizeException == [ok |-> FALSE, tokens |-> <<>>]

RECURSIVE TokenizeFrom(_, _, _)
(* the body of the loop of Tokenizer.tokenize, lines 171-203, for the match
   mo at pos *)
TokenizeMatch(text, pos, tokens, mo) ==
    LET value == SubSeq(text, pos, mo.end - 1)
    IN  CASE mo.kind = "SKIP" -> TokenizeFrom(text, mo.end, tokens)
          [] mo.kind = "MISMATCH" -> SQLTokenizeException
          [] mo.kind = "KEYWORD" ->
               TokenizeFrom(text, mo.end, Append(tokens, KeywordToken(mo.class, value)))
          [] mo.kind = "IDENTIFIER" ->
               TokenizeFrom(text, mo.end, Append(tokens, IdentifierToken(value)))
          [] mo.kind \in {"OPERATOR", "TEXT_OPERATOR"} ->
               TokenizeFrom(text, mo.end, Append(tokens, OperatorToken(Upper(value))))
          [] mo.kind = "LITERAL" ->
               TokenizeFrom(text, mo.end, Append(tokens, LiteralToken(value)))
          [] OTHER ->
               TokenizeFrom(text, mo.end, Append(tokens, PunctuationToken(value)))

(* the loop of Tokenizer.tokenize from pos on *)
TokenizeFrom(text, pos, tokens) ==
    IF pos > Len(text) THEN Tokenized(tokens)
    ELSE TokenizeMatch(text, pos, tokens, NextMatch(text, pos))

(* the tokens with an EOFToken at their end *)
WithEOF(tokenized) ==
    IF tokenized.ok THEN Tokenized(Append(tokenized.tokens, EOFToken)) ELSE tokenized

(* Tokenizer(text).tokenize() with an EOFToken at the end of the tokens *)
TokenizeWithEOF(text) == WithEOF(TokenizeFrom(text, 1, <<>>))

(* Tokenizer(text).tokenize() *)
Tokenize(text) == TokenizeFrom(text, 1, <<>>)

(***************************************************************************)
(* Expressions given to the parser: the ASTs with at most MaxOperators     *)
(* operators over the identifier a and the literal 1, each written as      *)
(* tokens with parentheses only where the grammar of the module docstring  *)
(* (lines 22-48) needs them.                                               *)
(***************************************************************************)
Identifier(value) == [type |-> "identifier", value |-> value]

Literal(value) == [type |-> "literal", value |-> value]

ExpressionLeaves == {Identifier(<<"a">>), Literal(<<"int", 1>>)}

Conjunctions == {<<"O", "R">>, <<"A", "N", "D">>}

Comparisons == {<<"=">>}

BinaryOps == {<<"-">>, <<"*">>}

UnaryOps == {<<"N", "O", "T">>, <<"-">>}

BinaryNode(op, left, right) ==
    [type |-> IF op \in Conjunctions THEN "conjunction"
              ELSE IF op \in Comparisons THEN "comparison" ELSE "binary_op",
     op |-> op, left |-> left, right |-> right]

UnaryNode(op, operand) == [type |-> "unary_op", op |-> op, operand |-> operand]

FunctionCallNode(name, args) == [type |-> "function_call", name |-> name, args |-> args]

(* the ASTs with one operator or function call more than those of the
   last of by_operators, which lists the ASTs with 0, 1, ... operators *)
OneOperatorMore(by_operators) ==
    LET k == Len(by_operators)
    IN  UNION {{BinaryNode(op, left, right) :
                   op \in Conjunctions \cup Comparisons \cup BinaryOps,
                   left \in by_operators[i + 1], right \in by_operators[k - i]} :
               i \in 0..(k - 1)}
        \cup {UnaryNode(op, operand) : op \in UnaryOps, operand \in by_operators[k]}
        \cup {FunctionCallNode(<<"R", "O", "U", "N", "D">>, <<arg>>) : arg \in by_operators[k]}

RECURSIVE ExpressionASTs(_)
(* the list of the sets of ASTs with exactly 0, 1, ..., k operators *)
ExpressionASTs(k) ==
    IF k = 0 THEN <<ExpressionLeaves>>
    ELSE LET fewer == ExpressionASTs(k - 1)
         IN  Append(fewer, OneOperatorMore(fewer))

(* the level of the grammar that produces the node: OR 1, AND 2, NOT 3,
   comparison 4, + - 5, * / 6, unary minus 7, primary 8 *)
Level(ast) ==
    CASE ast.type = "conjunction" -> IF ast.op = <<"O", "R">> THEN 1 ELSE 2
      [] ast.type = "comparison" -> 4
      [] ast.type = "binary_op" -> IF ast.op \in {<<"+">>, <<"-">>} THEN 5 ELSE 6
      [] ast.type = "unary_op" -> IF ast.op = <<"N", "O", "T">> THEN 3 ELSE 7
      [] OTHER -> 8

RECURSIVE Tokens(_, _)
(* the tokens of an AST where a node of level at least min is expected:
   a node of a lower level goes in parentheses; the left operand of a
   binary operator may be of its level, the right one and both sides of a
   comparison must be higher, the operand of NOT or unary minus may be of
   its level *)
Tokens(ast, min) ==
    LET bare ==
          CASE ast.type \in {"conjunction", "binary_op"} ->
                 Tokens(ast.left, Level(ast)) \o <<OperatorToken(ast.op)>>
                 \o Tokens(ast.right, Level(ast) + 1)
            [] ast.type = "comparison" ->
                 Tokens(ast.left, 5) \o <<OperatorToken(ast.op)>> \o Tokens(ast.right, 5)
            [] ast.type = "unary_op" ->
                 <<OperatorToken(ast.op)>> \o Tokens(ast.operand, Level(ast))
            [] ast.type = "function_call" ->
                 <<IdentifierToken(ast.name), PunctuationToken(<<"(">>)>>
                 \o Tokens(ast.args[1], 1) \o <<PunctuationToken(<<")">>)>>
            [] ast.type = "identifier" -> <<IdentifierToken(ast.value)>>
            [] OTHER -> <<LiteralToken(<<"1">>)>>
    IN  IF Level(ast) < min
        THEN <<PunctuationToken(<<"(">>)>> \o bare \o <<PunctuationToken(<<")">>)>>
        ELSE bare

(* the ASTs with at most k operators *)
ExpressionInputs(k) == UNION Range(ExpressionASTs(k))

(* two comparison operators in a row without parentheses *)
ChainedComparisons ==
    {<<IdentifierToken(<<"a">>), OperatorToken(op1), LiteralToken(<<"1">>),
       OperatorToken(op2), IdentifierToken(<<"a">>)>> :
        op1 \in {<<"=">>, <<"<">>, <<">">>, <<"<", "=">>, <<">", "=">>, <<"<", ">">>, <<"!", "=">>},
        op2 \in {<<"=">>, <<"<">>, <<">">>, <<"<", "=">>, <<">", "=">>, <<"<", ">">>, <<"!", "=">>}}

(***************************************************************************)
(* SQLQueryPlanner: expressions (sql/planner.py).                          *)
(*   a result is [ok, value]: the expression built, or the exception       *)
(*   raised, as a record of the kind of the exception and its argument     *)
(***************************************************************************)
(* a function of pyarrow.compute, by its name *)
Kernel(name) == <<name>>

FUNCTIONS_MAP ==
    (<<"+">> :> Kernel("add")) @@ (<<"-">> :> Kernel("subtract"))
    @@ (<<"*">> :> Kernel("multiply")) @@ (<<"/">> :> Kernel("divide"))
    @@ (<<">">> :> Kernel("greater")) @@ (<<"<">> :> Kernel("less"))
    @@ (<<">", "=">> :> Kernel("greater_equal")) @@ (<<"<", "=">> :> Kernel("less_equal"))
    @@ (<<"=">> :> Kernel("equal")) @@ (<<"A", "N", "D">> :> Kernel("and_"))
    @@ (<<"O", "R">> :> Kernel("or_")) @@ (<<"N", "O", "T">> :> Kernel("invert"))
    @@ (<<"R", "O", "U", "N", "D">> :> Kernel("round"))

AGGREGATIONS_MAP ==
    (<<"S", "U", "M">> :> "SumAggregation") @@ (<<"C", "O", "U", "N", "T">> :> "CountAggregation")
    @@ (<<"A", "V", "G">> :> "MeanAggregation") @@ (<<"M", "I", "N">> :> "MinAggregation")
    @@ (<<"M", "A", "X">> :> "MaxAggregation")

Built(value) == [ok |-> TRUE, value |-> value]

Raise(exception, argument) ==
    [ok |-> FALSE, value |-> [kind |-> exception, name |-> argument, args |-> <<>>]]

(* lit(value): a scalar known when the plan is made *)
Lit(value) == [kind |-> "Literal", value |-> value]

(* the tables opened so far, in the order they were opened: each is
   [name, columns] *)
TablesWith(open_tables, value) ==
    {i \in DOMAIN open_tables : value \in Range(open_tables[i].columns)}

(* _parse_identifier taking the first table that has the column *)
PlannerParseIdentifierFirstTable(open_tables, node) ==
    IF node.type # "identifier" THEN Raise("ValueError", <<"Unsupported identifier type">>)
    ELSE IF "." \in Range(node.value) THEN Built(ColumnRef(node.value))
    ELSE LET found == TablesWith(open_tables, node.value)
         IN  IF found = {} THEN Built(ColumnRef(node.value))
             ELSE LET table == CHOOSE i \in found : \A j \in found : i <= j
                  IN  Built(ColumnRef(open_tables[table].name \o <<".">> \o node.value))

PlannerParseIdentifier(open_tables, node) ==
    IF node.type # "identifier" THEN Raise("ValueError", <<"Unsupported identifier type">>)
    ELSE IF "." \in Range(node.value) THEN Built(ColumnRef(node.value))
    ELSE LET found == TablesWith(open_tables, node.value)
         IN  IF Cardinality(found) > 1
             THEN Raise("ValueError", <<"Ambiguous column name">>)
             ELSE IF found = {} THEN Built(ColumnRef(node.value))
             ELSE LET table == CHOOSE i \in found : TRUE
                  IN  Built(ColumnRef(open_tables[table].name \o <<".">> \o node.value))

PlannerParseLiteral(node) ==
    IF node.type # "literal" THEN Raise("ValueError", <<"Unsupported literal type">>)
    ELSE Built(Lit(node.value))

(* the results of a list of items, up to the first that raised *)
RECURSIVE FirstRaised(_)
FirstRaised(results) ==
    IF results = <<>> THEN 0
    ELSE IF ~ results[1].ok THEN 1
    ELSE LET later == FirstRaised(Tail(results))
         IN  IF later = 0 THEN 0 ELSE later + 1

RECURSIVE PlannerParseExpression(_, _)
PlannerParseExpression(open_tables, node) ==
    IF node.type \in {"conjunction", "binary_op", "comparison"}
    THEN LET left == PlannerParseExpression(open_tables, node.left)
             right == PlannerParseExpression(open_tables, node.right)
         IN  IF ~ left.ok THEN left
             ELSE IF ~ right.ok THEN right
             ELSE IF node.op \notin DOMAIN FUNCTIONS_MAP THEN Raise("KeyError", node.op)
             ELSE Built(FunctionCallExpression(FUNCTIONS_MAP[node.op],
                                               <<left.value, right.value>>))
    ELSE IF node.type = "unary_op"
    THEN IF node.op \notin DOMAIN FUNCTIONS_MAP THEN Raise("KeyError", node.op)
         ELSE IF "child" \notin DOMAIN node THEN Raise("KeyError", <<"child">>)
         ELSE LET operand == PlannerParseExpression(open_tables, node.child)
              IN  IF ~ operand.ok THEN operand
                  ELSE Built(FunctionCallExpression(FUNCTIONS_MAP[node.op], <<operand.value>>))
    ELSE IF node.type = "function_call"
    THEN IF node.name \notin DOMAIN FUNCTIONS_MAP
         THEN Raise("ValueError", <<"Unsupported function">>)
         ELSE LET args == [i \in DOMAIN node.args |->
                              PlannerParseExpression(open_tables, node.args[i])]
                  raised == FirstRaised(args)
              IN  IF raised # 0 THEN args[raised]
                  ELSE Built(FunctionCallExpression(FUNCTIONS_MAP[node.name],
                                                    [i \in DOMAIN args |-> args[i].value]))
    ELSE IF node.type = "identifier" THEN PlannerParseIdentifier(open_tables, node)
    ELSE IF node.type = "literal" THEN PlannerParseLiteral(node)
    ELSE Raise("ValueError", <<"Unsupported expression type">>)

NewExpressionParser(tokens, source) ==
    [tokens |-> tokens, source |-> source, pc |-> "created",
     result |-> Parsed(0, Literal(<<"int", 0>>))]

(* ExpressionParser(tokens).parse() *)
ExpressionParse ==
    /\ expression_parser.pc = "created"
    /\ expression_parser' =
          [expression_parser EXCEPT !.pc = "parsed",
                                    !.result = ExpressionParserParse(expression_parser.tokens)]
    /\ UNCHANGED <<operators, parser, planner>>

InitExpressionParser ==
    /\ \/ \E ast \in ExpressionInputs(MaxOperators) :
             expression_parser = NewExpressionParser(Tokens(ast, 1), Some(ast))
       \/ \E tokens \in ChainedComparisons :
             expression_parser = NewExpressionParser(tokens, None)
    /\ child = Idle
    /\ paginate = Idle
    /\ sort = Idle
    /\ extsort = Idle
    /\ tmpdir = NoFiles
    /\ filter = Idle
    /\ aggregate = Idle
    /\ join = Idle
    /\ project = Idle
    /\ parser = Idle
    /\ planner = Idle

(* SQLQueryPlanner._parse_expression on the AST the parser returned, no
   table being open *)
LowerExpression ==
    /\ expression_parser.pc = "parsed"
    /\ expression_parser.result.ok
    /\ planner = Idle
    /\ planner' = [pc |-> "lowered", node |-> expression_parser.result.ast,
                   expression |-> PlannerParseExpression(<<>>, expression_parser.result.ast)]
    /\ UNCHANGED <<operators, expression_parser, parser>>

NextExpressionParser == ExpressionParse \/ LowerExpression

SpecExpressionParser == InitExpressionParser /\ [][NextExpressionParser]_vars

(***************************************************************************)
(* SQLQueryPlanner: the plan of a SELECT (sql/planner.py).                 *)
(*   a dict is the sequence of its items [name, expr] in insertion order   *)
(***************************************************************************)
RECURSIVE DictSet(_, _, _)
DictSet(dict, name, expr) ==
    IF dict = <<>> THEN <<[name |-> name, expr |-> expr]>>
    ELSE IF dict[1].name = name THEN <<[name |-> name, expr |-> expr]>> \o Tail(dict)
    ELSE <<dict[1]>> \o DictSet(Tail(dict), name, expr)

DataSourceNode(tablename) == [node |-> "DataSourceNode", table |-> tablename]

PlanProjectNode(select, project_, child_) ==
    [node |-> "ProjectNode", select |-> select, project |-> project_, child |-> child_]

PlanFilterNode(expression, child_) ==
    [node |-> "FilterNode", expression |-> expression, child |-> child_]

PlanAggregateNode(keys, aggregations, child_) ==
    [node |-> "AggregateNode", keys |-> keys, aggregations |-> aggregations, child |-> child_]

PlanSortNode(keys, descending, child_) ==
    [node |-> "SortNode", keys |-> keys, descending |-> descending, child |-> child_]

PlanJoinNode(left_key, right_key, left_child, right_child) ==
    [node |-> "InnnerJoinNode", left_key |-> left_key, right_key |-> right_key,
     left_child |-> left_child, right_child |-> right_child]

(* PaginateNode.__init__: self.end = offset + length raises TypeError when
   either is None *)
PlanPaginateNode(offset, length, child_) ==
    IF offset = None \/ length = None
    THEN Raise("TypeError", <<"unsupported operand type(s) for +">>)
    ELSE Built([node |-> "PaginateNode", offset |-> offset[1], length |-> length[1],
                end |-> offset[1] + length[1], child |-> child_])

Aggregation(class, column) == [kind |-> class, name |-> column, args |-> <<>>]

(* the result of the first item that raised *)
RaisedResult(results) == results[FirstRaised(results)]

(* _parse_aggregation with the arguments of the call parsed as identifiers *)
AggregationOf(name, columns) ==
    IF FirstRaised(columns) # 0 THEN RaisedResult(columns)
    ELSE IF Len(columns) # 1
    THEN Raise("TypeError", <<"__init__() takes 2 positional arguments">>)
    ELSE Built(Some(Aggregation(AGGREGATIONS_MAP[name], columns[1].value.name)))

(* the result holds None, or the aggregation in a one-item sequence *)
PlannerParseAggregation(open_tables, node) ==
    IF node.type = "function_call" /\ node.name \in DOMAIN AGGREGATIONS_MAP
    THEN AggregationOf(node.name,
                       [i \in DOMAIN node.args |->
                           PlannerParseIdentifier(open_tables, node.args[i])])
    ELSE Built(None)

Projection(value, alias) == [type |-> "projection", value |-> value, alias |-> alias]

(* _parse_group_by raising: the projections stay as rewritten so far *)
GroupByRaised(exception, projections) ==
    [ok |-> FALSE, value |-> exception.value, projections |-> projections]

RECURSIVE GroupByLoopNoMap(_, _, _, _)
(* the body of the loop of GroupByLoopNoMap, expr being the aggregation
   parsed out of projection idx *)
GroupByStepNoMap(open_tables, projections, idx, aggregations, expr) ==
    IF ~ expr.ok THEN GroupByRaised(expr, projections)
    ELSE IF expr.value = None
    THEN GroupByLoopNoMap(open_tables, projections, idx + 1, aggregations)
    ELSE IF projections[idx].alias = None \/ projections[idx].alias = Some(<<>>)
    THEN GroupByRaised(Raise("ValueError", <<"Aggregations must have an alias">>), projections)
    ELSE GroupByLoopNoMap(
             open_tables,
             [projections EXCEPT
                 ![idx] = Projection([type |-> "identifier", value |-> projections[idx].alias[1]],
                                     None)],
             idx + 1,
             aggregations)

(* the loop of _parse_group_by leaving the aggregations it finds out of
   the map *)
GroupByLoopNoMap(open_tables, projections, idx, aggregations) ==
    IF idx > Len(projections)
    THEN [ok |-> TRUE, value |-> aggregations, projections |-> projections]
    ELSE GroupByStepNoMap(open_tables, projections, idx, aggregations,
                          PlannerParseAggregation(open_tables, projections[idx].value))

RECURSIVE GroupByLoop(_, _, _, _)
(* the body of the loop of _parse_group_by, lines 172-184, expr being the
   aggregation parsed out of projection idx *)
GroupByStep(open_tables, projections, idx, aggregations, expr) ==
    IF ~ expr.ok THEN GroupByRaised(expr, projections)
    ELSE IF expr.value = None
    THEN GroupByLoop(open_tables, projections, idx + 1, aggregations)
    ELSE IF projections[idx].alias = None \/ projections[idx].alias = Some(<<>>)
    THEN GroupByRaised(Raise("ValueError", <<"Aggregations must have an alias">>), projections)
    ELSE GroupByLoop(
             open_tables,
             [projections EXCEPT
                 ![idx] = Projection([type |-> "identifier", value |-> projections[idx].alias[1]],
                                     None)],
             idx + 1,
             DictSet(aggregations, projections[idx].alias[1], expr.value[1]))

(* the loop of _parse_group_by from projection idx on: [ok, value,
   projections] with the aggregations found, or the exception raised, and
   the projections as rewritten so far *)
GroupByLoop(open_tables, projections, idx, aggregations) ==
    IF idx > Len(projections)
    THEN [ok |-> TRUE, value |-> aggregations, projections |-> projections]
    ELSE GroupByStep(open_tables, projections, idx, aggregations,
                     PlannerParseAggregation(open_tables, projections[idx].value))

(* _parse_group_by, line 186, with the keys parsed and the loop over the
   projections done *)
GroupByOf(keys, loop, child_) ==
    IF ~ loop.ok THEN loop
    ELSE [ok |-> TRUE,
          value |-> PlanAggregateNode([i \in DOMAIN keys |-> keys[i].value.name],
                                      loop.value, child_),
          projections |-> loop.projections]

(* _parse_group_by, lines 171-186, with the keys parsed *)
GroupByKeys(open_tables, projections, keys, child_) ==
    IF FirstRaised(keys) # 0 THEN GroupByRaised(RaisedResult(keys), projections)
    ELSE GroupByOf(keys, GroupByLoop(open_tables, projections, 1, <<>>), child_)

(* _parse_group_by: [ok, value, projections]; group_by is None or holds the
   list of identifiers *)
PlannerParseGroupBy(open_tables, projections, group_by, child_) ==
    IF group_by = None \/ group_by = Some(<<>>)
    THEN [ok |-> TRUE, value |-> child_, projections |-> projections]
    ELSE IF projections = <<>>
    THEN GroupByRaised(Raise("ValueError", <<"GROUP BY requires at least one aggregation">>),
                       projections)
    ELSE GroupByKeys(open_tables, projections,
                     [i \in DOMAIN group_by[1] |->
                         PlannerParseIdentifier(open_tables, group_by[1][i])],
                     child_)

(* _parse_projection, lines 206-221, with the expression of the projection
   parsed *)
ProjectionOf(node, expr) ==
    IF ~ expr.ok THEN expr
    ELSE IF expr.value.kind = "ColumnRef"
    THEN IF node.alias = None /\ expr.value.name # node.value.value
         THEN Built([alias |-> Some(node.value.value), expr |-> expr.value])
         ELSE Built([alias |-> node.alias, expr |-> expr.value])
    ELSE IF node.alias = None
    THEN Raise("ValueError", <<"Projection must have an alias">>)
    ELSE Built([alias |-> node.alias, expr |-> expr.value])

(* _parse_projection: the pair [alias, expr] in value, alias None or held
   in a one-item sequence *)
PlannerParseProjection(open_tables, node) ==
    IF node.type # "projection" THEN Raise("ValueError", <<"Unsupported projection type">>)
    ELSE ProjectionOf(node, PlannerParseExpression(open_tables, node.value))

RECURSIVE SelectOf(_)
SelectOf(parsed_projections) ==
    IF parsed_projections = <<>> THEN <<>>
    ELSE LET p == parsed_projections[1]
         IN  (IF p.expr.kind = "ColumnRef" /\ p.alias = None THEN <<p.expr.name>> ELSE <<>>)
             \o SelectOf(Tail(parsed_projections))

RECURSIVE ProjectOf(_, _)
ProjectOf(parsed_projections, project_) ==
    IF parsed_projections = <<>> THEN project_
    ELSE LET p == parsed_projections[1]
         IN  ProjectOf(Tail(parsed_projections),
                       IF p.alias # None THEN DictSet(project_, p.alias[1], p.expr)
                       ELSE project_)

(* _parse_projections, lines 223-231, over the pairs [alias, expr] *)
ProjectNodeOf(parsed_projections, child_) ==
    Built(PlanProjectNode(SelectOf(parsed_projections), ProjectOf(parsed_projections, <<>>),
                          child_))

(* _parse_projections with every projection parsed *)
ProjectionsParsed(parsed, child_) ==
    IF FirstRaised(parsed) # 0 THEN RaisedResult(parsed)
    ELSE ProjectNodeOf([i \in DOMAIN parsed |-> parsed[i].value], child_)

PlannerParseProjections(open_tables, projections, child_) ==
    ProjectionsParsed([i \in DOMAIN projections |->
                          PlannerParseProjection(open_tables, projections[i])],
                      child_)

(* _open_table: [ok, value, open_tables]; the catalog maps a table name to
   the column names of the table registered under it, and no other table
   is found as a file *)
OpenTable(open_tables, catalog, identifier) ==
    IF identifier.type # "identifier"
    THEN [ok |-> FALSE, value |-> Raise("ValueError", <<"Unsupported node type">>).value,
          open_tables |-> open_tables]
    ELSE IF \E i \in DOMAIN open_tables : open_tables[i].name = identifier.value
    THEN [ok |-> FALSE, value |-> Raise("ValueError", <<"Table was already opened">>).value,
          open_tables |-> open_tables]
    ELSE IF identifier.value \notin DOMAIN catalog
    THEN [ok |-> FALSE,
          value |-> Raise("NotImplementedError", <<"File format not supported">>).value,
          open_tables |-> open_tables]
    ELSE LET tablename == identifier.value
             names == catalog[tablename]
         IN  [ok |-> TRUE,
              value |-> PlanProjectNode(
                            <<>>,
                            [i \in DOMAIN names |->
                                [name |-> tablename \o <<".">> \o names[i],
                                 expr |-> ColumnRef(names[i])]],
                            DataSourceNode(tablename)),
              open_tables |-> Append(open_tables, [name |-> tablename, columns |-> names])]

(* _parse_from raising, with the tables opened so far *)
FromRaised(exception, open_tables) ==
    [ok |-> FALSE, value |-> exception.value, open_tables |-> open_tables]

(* _parse_from, lines 263-270, with both tables open and both keys parsed *)
FromJoinKeys(left_table, right_table, left_key, right_key) ==
    IF ~ left_key.ok THEN FromRaised(left_key, right_table.open_tables)
    ELSE IF ~ right_key.ok THEN FromRaised(right_key, right_table.open_tables)
    ELSE [ok |-> TRUE,
          value |-> PlanJoinNode(left_key.value.name, right_key.value.name,
                                 left_table.value, right_table.value),
          open_tables |-> right_table.open_tables]

(* _parse_from, lines 255-270, with the left table open and the right one
   opened after it *)
FromJoinRight(from_entry, left_table, right_table) ==
    IF ~ right_table.ok THEN right_table
    ELSE IF from_entry.join_condition = None
    THEN FromRaised(Raise("TypeError", <<"'NoneType' object is not subscriptable">>),
                    right_table.open_tables)
    ELSE IF from_entry.join_condition[1].type # "comparison"
            \/ from_entry.join_condition[1].op # <<"=">>
    THEN FromRaised(Raise("ValueError", <<"Only comparison joins are supported">>),
                    right_table.open_tables)
    ELSE FromJoinKeys(left_table, right_table,
                      PlannerParseIdentifier(right_table.open_tables,
                                             from_entry.join_condition[1].left),
                      PlannerParseIdentifier(right_table.open_tables,
                                             from_entry.join_condition[1].right))

(* _parse_from, lines 252-270, with the left table opened *)
FromJoinLeft(catalog, from_entry, left_table) ==
    IF ~ left_table.ok THEN left_table
    ELSE FromJoinRight(from_entry, left_table,
                       OpenTable(left_table.open_tables, catalog, from_entry.right_table))

(* _parse_from: [ok, value, open_tables]; the join condition is None or
   held in a one-item sequence *)
PlannerParseFrom(catalog, from_clause) ==
    IF Len(from_clause) # 1
    THEN FromRaised(Raise("ValueError", <<"Only single table queries are supported">>), <<>>)
    ELSE IF from_clause[1].type = "identifier" THEN OpenTable(<<>>, catalog, from_clause[1])
    ELSE IF from_clause[1].type # "join"
    THEN FromRaised(Raise("ValueError", <<"Unsupported FROM entry type">>), <<>>)
    ELSE IF from_clause[1].join_type # <<"i", "n", "n", "e", "r">>
    THEN FromRaised(Raise("ValueError", <<"Only inner joins are supported">>), <<>>)
    ELSE FromJoinLeft(catalog, from_clause[1],
                      OpenTable(<<>>, catalog, from_clause[1].left_table))

(* _parse_where, line 338, with the expression parsed *)
FilterOf(expression, child_) ==
    IF ~ expression.ok THEN expression ELSE Built(PlanFilterNode(expression.value, child_))

PlannerParseWhere(open_tables, where_clause, child_) ==
    IF where_clause = None THEN Built(child_)
    ELSE FilterOf(PlannerParseExpression(open_tables, where_clause[1]), child_)

PlannerParsePagination(offset, limit, child_) ==
    IF offset = None /\ limit = None THEN Built(child_)
    ELSE PlanPaginateNode(offset, limit, child_)

(* _parse_order_by, lines 374-381, with the columns parsed *)
SortOf(orderings, keys, child_) ==
    IF FirstRaised(keys) # 0 THEN RaisedResult(keys)
    ELSE Built(PlanSortNode(
                   [i \in DOMAIN keys |-> keys[i].value.name],
                   [i \in DOMAIN keys |-> Lower(orderings[i].order) = <<"d", "e", "s", "c">>],
                   child_))

PlannerParseOrderBy(open_tables, order_by, child_) ==
    IF order_by = None THEN Built(child_)
    ELSE SortOf(order_by[1],
                [i \in DOMAIN order_by[1] |->
                    PlannerParseIdentifier(open_tables, order_by[1][i].column)],
                child_)

(* _plan_select: the arguments of each call are evaluated before the call,
   the innermost first, so the clauses are planned in the order from,
   where, group_by, projections, order_by, pagination.  Each step is given
   what the steps before it built; the result is [plan, projections] with
   the plan or the exception raised and the list query["projections"] as it
   is left. *)

(* lines 126-130: pagination over the plan of ORDER BY *)
PlanSelectOrderBy(query, rewritten, order_by) ==
    IF ~ order_by.ok THEN [plan |-> order_by, projections |-> rewritten]
    ELSE [plan |-> PlannerParsePagination(query.offset, query.limit, order_by.value),
          projections |-> rewritten]

(* lines 129-132: ORDER BY over the plan of the projections *)
PlanSelectProjections(query, opened, rewritten, projections) ==
    IF ~ projections.ok THEN [plan |-> projections, projections |-> rewritten]
    ELSE PlanSelectOrderBy(query, rewritten,
                           PlannerParseOrderBy(opened, query.order_by, projections.value))

(* lines 131-135: the projections over the plan of GROUP BY *)
PlanSelectGroupBy(query, opened, group_by) ==
    IF ~ group_by.ok
    THEN [plan |-> [ok |-> FALSE, value |-> group_by.value],
          projections |-> group_by.projections]
    ELSE PlanSelectProjections(query, opened, group_by.projections,
                               PlannerParseProjections(opened, group_by.projections,
                                                       group_by.value))

(* lines 133-138: GROUP BY over the plan of WHERE *)
PlanSelectWhere(query, opened, where) ==
    IF ~ where.ok THEN [plan |-> where, projections |-> query.projections]
    ELSE PlanSelectGroupBy(query, opened,
                           PlannerParseGroupBy(opened, query.projections, query.group_by,
                                               where.value))

(* lines 136-138: WHERE over the plan of FROM *)
PlanSelectFrom(query, from) ==
    IF ~ from.ok
    THEN [plan |-> [ok |-> FALSE, value |-> from.value], projections |-> query.projections]
    ELSE PlanSelectWhere(query, from.open_tables,
                         PlannerParseWhere(from.open_tables, query.where, from.value))

(* _plan_select *)
PlanSelect(query, catalog) == PlanSelectFrom(query, PlannerParseFrom(catalog, query.from))

(* SQLQueryPlanner.plan *)
PlannerPlan(query, catalog) ==
    IF query.type = "select" THEN PlanSelect(query, catalog)
    ELSE [plan |-> Raise("ValueError", <<"Unsupported query type">>),
          projections |-> query.projections]

(***************************************************************************)
(* The queries given to the planner: ASTs as SelectStatementParser builds  *)
(* them, over the tables t(a, b) and u(a, c) of the catalog.               *)
(***************************************************************************)
Catalog == (<<"t">> :> <<<<"a">>, <<"b">>>>) @@ (<<"u">> :> <<<<"a">>, <<"c">>>>)

JoinNode(left_table, right_table, join_condition) ==
    [type |-> "join", join_type |-> <<"i", "n", "n", "e", "r">>,
     left_table |-> Identifier(left_table), right_table |-> Identifier(right_table),
     join_condition |-> join_condition]

FromClauses ==
    {<<Identifier(<<"t">>)>>,
     <<JoinNode(<<"t">>, <<"u">>,
                Some(BinaryNode(<<"=">>, Identifier(<<"t", ".", "a">>),
                                Identifier(<<"u", ".", "a">>))))>>,
     <<JoinNode(<<"t">>, <<"u">>,
                Some(BinaryNode(<<"=">>, Identifier(<<"b">>), Identifier(<<"c">>))))>>,
     <<JoinNode(<<"t">>, <<"u">>,
                Some(BinaryNode(<<"=">>, Identifier(<<"u", ".", "a">>),
                                Identifier(<<"t", ".", "a">>))))>>}

QueryProjections ==
    {Projection(Identifier(<<"a">>), None),
     Projection(Identifier(<<"b">>), Some(<<"x">>)),
     Projection(Identifier(<<"t", ".", "b">>), None),
     Projection(FunctionCallNode(<<"S", "U", "M">>, <<Identifier(<<"b">>)>>), Some(<<"s">>)),
     Projection(FunctionCallNode(<<"M", "A", "X">>, <<Identifier(<<"c">>)>>), None),
     Projection(BinaryNode(<<"+">>, Identifier(<<"b">>), Literal(<<"int", 1>>)), Some(<<"y">>))}

ProjectionLists ==
    {<<p>> : p \in QueryProjections} \cup {<<p, q>> : p \in QueryProjections, q \in QueryProjections}

WhereClauses ==
    {None, Some(BinaryNode(<<"=">>, Identifier(<<"a">>), Literal(<<"int", 1>>)))}

GroupByClauses == {None, Some(<<Identifier(<<"b">>)>>)}

Ordering(column, order) == [type |-> "ordering", column |-> Identifier(column), order |-> order]

OrderByClauses ==
    {None, Some(<<Ordering(<<"s">>, <<"D", "E", "S", "C">>)>>),
     Some(<<Ordering(<<"a">>, <<"A", "S", "C">>)>>)}

Limits == {None} \cup {Some(n) : n \in 1..MaxLimit}

Offsets == {None} \cup {Some(m) : m \in 0..MaxLimit}

SelectNode(projections, from, where, group_by, order_by, limit, offset) ==
    [type |-> "select", projections |-> projections, from |-> from, where |-> where,
     group_by |-> group_by, order_by |-> order_by, limit |-> limit, offset |-> offset]

(* SQLQueryPlanner(query, catalog); query0 is the AST as it was given *)
NewPlanner(query) ==
    [pc |-> "created", query0 |-> query, query |-> query, plan |-> None, again |-> None]

(* SQLQueryPlanner(query, catalog).plan(): the list of projections of the
   query is rewritten in place *)
PlannerPlanQuery ==
    /\ planner.pc = "created"
    /\ LET planned == PlannerPlan(planner.query, Catalog)
       IN  planner' = [planner EXCEPT !.pc = "planned",
                                      !.plan = Some(planned.plan),
                                      !.query.projections = planned.projections]
    /\ UNCHANGED <<operators, expression_parser, parser>>

(* a second SQLQueryPlanner(query, catalog).plan() on the same AST object *)
PlannerPlanAgain ==
    /\ planner.pc = "planned"
    /\ LET planned == PlannerPlan(planner.query, Catalog)
       IN  planner' = [planner EXCEPT !.pc = "replanned",
                                      !.again = Some(planned.plan),
                                      !.query.projections = planned.projections]
    /\ UNCHANGED <<operators, expression_parser, parser>>

InitPlanner ==
    /\ \E projections \in ProjectionLists, from \in FromClauses, where \in WhereClauses,
          group_by \in GroupByClauses, order_by \in OrderByClauses,
          limit \in Limits, offset \in Offsets :
          planner = NewPlanner(SelectNode(projections, from, where, group_by, order_by,
                                          limit, offset))
    /\ child = Idle
    /\ paginate = Idle
    /\ sort = Idle
    /\ extsort = Idle
    /\ tmpdir = NoFiles
    /\ filter = Idle
    /\ aggregate = Idle
    /\ join = Idle
    /\ project = Idle
    /\ expression_parser = Idle
    /\ parser = Idle

NextPlanner == PlannerPlanQuery \/ PlannerPlanAgain

SpecPlanner == InitPlanner /\ [][NextPlanner]_vars

(***************************************************************************)
(* Parser and SelectStatementParser (sql/parser.py).  Each parse method is *)
(* an operator from the tokens and the position self.pos to [ok, pos,      *)
(* ast]: what it returns and the position it leaves, or the exception.     *)
(***************************************************************************)
ParserRaise(exception, message) ==
    [ok |-> FALSE, pos |-> 0, ast |-> [type |-> exception, value |-> <<message>>]]

SQLParseError(message) == ParserRaise("SQLParseError", message)

(* parse_expression, lines 427-433, with the outcome of ExpressionParser *)
ExpressionParsed(pos, parsed) ==
    IF ~ parsed.ok THEN SQLParseError("Error parsing expression")
    ELSE Parsed(pos + parsed.pos, parsed.ast)

(* SelectStatementParser.parse_expression *)
SelectParseExpression(tokens, pos) ==
    ExpressionParsed(pos, ExpressionParserParse(SubSeq(tokens, pos + 1, Len(tokens))))

ConsumePunctuation(tokens, pos, values) ==
    /\ CurrentToken(tokens, pos).kind = "PunctuationToken"
    /\ CurrentToken(tokens, pos).value \in values

RECURSIVE ParseProjections(_, _, _)
(* the body of the loop of parse_projections, lines 243-256, with the
   expression of the projection parsed *)
ProjectionParsed(tokens, projections, value) ==
    LET aliased == CurrentToken(tokens, value.pos).kind = "AliasToken"
        named == aliased /\ CurrentToken(tokens, value.pos + 1).kind = "IdentifierToken"
        alias == IF named THEN Some(CurrentToken(tokens, value.pos + 1).value) ELSE None
        after == IF named THEN value.pos + 2 ELSE IF aliased THEN value.pos + 1 ELSE value.pos
    IN  IF ~ value.ok THEN value
        ELSE IF ConsumePunctuation(tokens, after, {<<",">>})
        THEN ParseProjections(tokens, after + 1, Append(projections, Projection(value.ast, alias)))
        ELSE Parsed(after, Append(projections, Projection(value.ast, alias)))

ParseProjections(tokens, pos, projections) ==
    ProjectionParsed(tokens, projections, SelectParseExpression(tokens, pos))

RECURSIVE JoinTypes(_, _)
(* the values of the JoinTypeToken tokens from pos on *)
JoinTypes(tokens, pos) ==
    IF CurrentToken(tokens, pos).kind = "JoinTypeToken"
    THEN <<CurrentToken(tokens, pos).value>> \o JoinTypes(tokens, pos + 1)
    ELSE <<>>

RECURSIVE JoinedBy(_, _)
(* separator.join(words) *)
JoinedBy(separator, words) ==
    IF words = <<>> THEN <<>>
    ELSE IF Len(words) = 1 THEN words[1]
    ELSE words[1] \o separator \o JoinedBy(separator, Tail(words))

(* the join node of parse_join_clause, lines 333-339 *)
JoinOf(after, join_type, left_table, right_table, join_condition) ==
    Parsed(after,
           [type |-> "join",
            join_type |-> JoinedBy(<<"_">>, [i \in DOMAIN join_type |-> Lower(join_type[i])]),
            left_table |-> [type |-> "identifier", value |-> left_table],
            right_table |-> [type |-> "identifier", value |-> right_table],
            join_condition |-> join_condition])

(* parse_join_clause from the JOIN keyword at at_join on, lines 314-339;
   condition is the expression parsed after ON *)
JoinAt(tokens, at_join, join_type, left_table, condition) ==
    LET right_table == CurrentToken(tokens, at_join + 1)
    IN  IF CurrentToken(tokens, at_join).kind # "JoinToken"
        THEN SQLParseError("Expected JOIN keyword in JOIN clause")
        ELSE IF right_table.kind # "IdentifierToken"
        THEN SQLParseError("Expected table name in JOIN clause")
        ELSE IF CurrentToken(tokens, at_join + 2).kind # "JoinOnToken"
        THEN JoinOf(at_join + 2, join_type, left_table, right_table.value, None)
        ELSE IF ~ condition.ok THEN condition
        ELSE JoinOf(condition.pos, join_type, left_table, right_table.value,
                    Some(condition.ast))

ParseJoinClause(tokens, pos, left_table) ==
    LET given == JoinTypes(tokens, pos)
    IN  JoinAt(tokens, pos + Len(given),
               IF given = <<>> THEN <<<<"I", "N", "N", "E", "R">>>> ELSE given,
               left_table, SelectParseExpression(tokens, pos + Len(given) + 3))

RECURSIVE ParseFromClause(_, _, _)
(* the body of the loop of parse_from_clause, lines 266-277, with the table
   or the join parsed *)
TableParsed(tokens, tables, table) ==
    IF ~ table.ok THEN table
    ELSE IF ConsumePunctuation(tokens, table.pos, {<<",">>})
    THEN ParseFromClause(tokens, table.pos + 1, Append(tables, table.ast))
    ELSE Parsed(table.pos, Append(tables, table.ast))

ParseFromClause(tokens, pos, tables) ==
    IF CurrentToken(tokens, pos).kind # "IdentifierToken"
    THEN SQLParseError("Expected table name in FROM clause")
    ELSE TableParsed(tokens, tables,
                     IF CurrentToken(tokens, pos + 1).kind \in {"JoinTypeToken", "JoinToken"}
                     THEN ParseJoinClause(tokens, pos + 1, CurrentToken(tokens, pos).value)
                     ELSE Parsed(pos + 1, [type |-> "identifier",
                                           value |-> CurrentToken(tokens, pos).value]))

ParseWhereClause(tokens, pos) == SelectParseExpression(tokens, pos)

RECURSIVE ParseGroupByClause(_, _, _)
ParseGroupByClause(tokens, pos, group_by_columns) ==
    IF CurrentToken(tokens, pos).kind # "IdentifierToken"
    THEN SQLParseError("Expected column name in GROUP BY clause")
    ELSE LET found == Append(group_by_columns,
                             [type |-> "identifier", value |-> CurrentToken(tokens, pos).value])
         IN  IF ConsumePunctuation(tokens, pos + 1, {<<",">>})
             THEN ParseGroupByClause(tokens, pos + 2, found)
             ELSE Parsed(pos + 1, found)

RECURSIVE ParseOrderByClause(_, _, _)
ParseOrderByClause(tokens, pos, order_by_columns) ==
    IF CurrentToken(tokens, pos).kind # "IdentifierToken"
    THEN SQLParseError("Expected column name in ORDER BY clause")
    ELSE LET ordered == CurrentToken(tokens, pos + 1).kind = "SortingOrderToken"
             sort_order == IF ordered THEN Upper(CurrentToken(tokens, pos + 1).value)
                           ELSE <<"A", "S", "C">>
             after == IF ordered THEN pos + 2 ELSE pos + 1
             found == Append(order_by_columns,
                             [type |-> "ordering",
                              column |-> [type |-> "identifier",
                                          value |-> CurrentToken(tokens, pos).value],
                              order |-> sort_order])
         IN  IF ConsumePunctuation(tokens, after, {<<",">>})
             THEN ParseOrderByClause(tokens, after + 1, found)
             ELSE Parsed(after, found)

(* int(value) raises ValueError unless the text is a run of digits *)
ParseLimitOrOffsetClause(tokens, pos) ==
    LET token == CurrentToken(tokens, pos)
    IN  IF token.kind # "LiteralToken"
        THEN SQLParseError("Expected numeric literal after LIMIT or OFFSET")
        ELSE IF \E i \in DOMAIN token.value : ~ IsDigit(token.value[i])
        THEN ParserRaise("ValueError", "invalid literal for int() with base 10")
        ELSE Parsed(pos + 1, IntOf(token.value))

(* no token is ever taken to be left *)
TokenLeftNever(tokens, pos) == FALSE

(* a token is left where the statement should end *)
TokenLeft(tokens, pos) == CurrentToken(tokens, pos).kind # "EOFToken"

(* SelectStatementParser.parse is a sequence of steps, each given what the
   steps before it left: the exception one of them raised, or the position
   reached and the clauses parsed so far, in the order projections, from,
   where, group_by, order_by, limit, offset. *)

(* lines 183-189: FROM after the projections, from_clause being what
   parse_from_clause gives after the FROM token *)
FromClause(tokens, projections, from_clause) ==
    IF ~ projections.ok THEN projections
    ELSE IF CurrentToken(tokens, projections.pos).kind # "FromToken"
    THEN SQLParseError("Expected 'FROM' after projections")
    ELSE IF ~ from_clause.ok THEN from_clause
    ELSE Parsed(from_clause.pos, <<projections.ast, from_clause.ast>>)

(* an optional clause, lines 191-214: the keyword token is there and the
   clause is parsed after it, or the clause is None and the position is kept *)
OptionalClause(tokens, parsed, keyword, clause) ==
    IF ~ parsed.ok THEN parsed
    ELSE IF CurrentToken(tokens, parsed.pos).kind # keyword
    THEN Parsed(parsed.pos, Append(parsed.ast, None))
    ELSE IF ~ clause.ok THEN clause
    ELSE Parsed(clause.pos, Append(parsed.ast, Some(clause.ast)))

(* lines 183-189 *)
SelectFrom(tokens, projections) ==
    FromClause(tokens, projections, ParseFromClause(tokens, projections.pos + 1, <<>>))

(* lines 191-194 *)
SelectWhere(tokens, parsed) ==
    OptionalClause(tokens, parsed, "WhereToken", ParseWhereClause(tokens, parsed.pos + 1))

(* lines 196-199 *)
SelectGroupBy(tokens, parsed) ==
    OptionalClause(tokens, parsed, "GroupByToken",
                   ParseGroupByClause(tokens, parsed.pos + 1, <<>>))

(* lines 201-204 *)
SelectOrderBy(tokens, parsed) ==
    OptionalClause(tokens, parsed, "OrderByToken",
                   ParseOrderByClause(tokens, parsed.pos + 1, <<>>))

(* lines 206-209 *)
SelectLimit(tokens, parsed) ==
    OptionalClause(tokens, parsed, "LimitToken", ParseLimitOrOffsetClause(tokens, parsed.pos + 1))

(* lines 211-214 *)
SelectOffset(tokens, parsed) ==
    OptionalClause(tokens, parsed, "OffsetToken", ParseLimitOrOffsetClause(tokens, parsed.pos + 1))

(* lines 216-230: the end of the tokens and the AST *)
SelectEnd(tokens, parsed) ==
    IF ~ parsed.ok THEN parsed
    ELSE IF TokenLeft(tokens, parsed.pos) THEN SQLParseError("Unexpected token")
    ELSE Parsed(parsed.pos,
                SelectNode(parsed.ast[1], parsed.ast[2], parsed.ast[3], parsed.ast[4],
                           parsed.ast[5], parsed.ast[6], parsed.ast[7]))

(* SelectStatementParser(tokens).parse() *)
SelectStatementParse(tokens) ==
    IF CurrentToken(tokens, 0).kind # "SelectToken"
    THEN SQLParseError("Expected SELECT statement")
    ELSE SelectEnd(tokens,
           SelectOffset(tokens,
             SelectLimit(tokens,
               SelectOrderBy(tokens,
                 SelectGroupBy(tokens,
                   SelectWhere(tokens,
                     SelectFrom(tokens, ParseProjections(tokens, 1, <<>>))))))))

(* Parser.parse with INSERT and UPDATE taken as any other first token *)
ParserParseSelectOnly(tokens) ==
    IF tokens = <<>> THEN SQLParseError("Empty Query.")
    ELSE IF tokens[1].kind = "SelectToken" THEN SelectStatementParse(tokens)
    ELSE SQLParseError("Unsupported statement type")

(* Parser.parse *)
ParserParse(tokens) ==
    IF tokens = <<>> THEN SQLParseError("Empty Query.")
    ELSE IF tokens[1].kind = "SelectToken" THEN SelectStatementParse(tokens)
    ELSE IF tokens[1].kind = "InsertToken"
    THEN ParserRaise("NotImplementedError", "INSERT statements are not supported yet.")
    ELSE IF tokens[1].kind = "UpdateToken"
    THEN ParserRaise("NotImplementedError", "UPDATE statements are not supported yet.")
    ELSE SQLParseError("Unsupported statement type")

(***************************************************************************)
(* The texts given to Parser: a beginning of a statement followed by at    *)
(* most MaxClauses clauses in any order, and the texts of at most          *)
(* MaxSpaces whitespace characters.                                        *)
(***************************************************************************)
StatementHeads ==
    {<<"S", "E", "L", "E", "C", "T", " ", "a", " ", "F", "R", "O", "M", " ", "t">>,
     <<"s", "e", "l", "e", "c", "t", " ", "a", ",", " ", "S", "U", "M", "(", "b", ")", " ", "A", "S", " ", "s", " ", "f", "r", "o", "m", " ", "t">>,
     <<"S", "E", "L", "E", "C", "T", " ", "a", " ", "F", "R", "O", "M", " ", "t", " ", "I", "N", "N", "E", "R", " ", "J", "O", "I", "N", " ", "u", " ", "O", "N", " ", "t", ".", "a", " ", "=", " ", "u", ".", "a">>,
     <<"S", "E", "L", "E", "C", "T", " ", "a">>,
     <<"I", "N", "S", "E", "R", "T", " ", "a", " ", "F", "R", "O", "M", " ", "t">>,
     <<"U", "P", "D", "A", "T", "E", " ", "t">>,
     <<"t", " ", "S", "E", "L", "E", "C", "T", " ", "a", " ", "F", "R", "O", "M", " ", "t">>,
     <<"F", "R", "O", "M", " ", "t">>,
     <<"S", "E", "L", "E", "C", "T", " ", "a", " ", "F", "R", "O", "M", " ", "t", " ", "?">>}

(* the heads that have SELECT, projections, FROM and tables *)
CompleteHeads ==
    {<<"S", "E", "L", "E", "C", "T", " ", "a", " ", "F", "R", "O", "M", " ", "t">>,
     <<"s", "e", "l", "e", "c", "t", " ", "a", ",", " ", "S", "U", "M", "(", "b", ")", " ", "A", "S", " ", "s", " ", "f", "r", "o", "m", " ", "t">>,
     <<"S", "E", "L", "E", "C", "T", " ", "a", " ", "F", "R", "O", "M", " ", "t", " ", "I", "N", "N", "E", "R", " ", "J", "O", "I", "N", " ", "u", " ", "O", "N", " ", "t", ".", "a", " ", "=", " ", "u", ".", "a">>}

(* the clauses in the order of the grammar, and a stray token *)
ClauseTexts ==
    <<<<" ", "W", "H", "E", "R", "E", " ", "a", " ", "=", " ", "1">>, <<" ", "G", "R", "O", "U", "P", " ", "B", "Y", " ", "a", ",", " ", "b">>, <<" ", "o", "r", "d", "e", "r", " ", "b", "y", " ", "a", " ", "D", "E", "S", "C", ",", " ", "b">>, <<" ", "L", "I", "M", "I", "T", " ", "1">>, <<" ", "O", "F", "F", "S", "E", "T", " ", "2">>, <<" ", "b">>>>

StrayToken == Len(ClauseTexts)

ClauseLists == UNION {[1..n -> DOMAIN ClauseTexts] : n \in 0..MaxClauses}

RECURSIVE ClausesText(_)
ClausesText(clauses) ==
    IF clauses = <<>> THEN <<>> ELSE ClauseTexts[clauses[1]] \o ClausesText(Tail(clauses))

WhitespaceTexts == UNION {[1..n -> {" ", "\t", "\n"}] : n \in 0..MaxSpaces}

(* the text of a query, before Parser(text); head and clauses say what the
   text was made of *)
NewText(text, head, clauses) ==
    [pc |-> "text", text |-> text, head |-> head, clauses |-> clauses,
     tokens |-> <<>>, result |-> SQLParseError("")]

(* the Parser made of the text, or SQLTokenizeException out of __init__ *)
ParserOf(query, tokenized) ==
    [query EXCEPT !.pc = IF tokenized.ok THEN "created" ELSE "failed",
                  !.tokens = tokenized.tokens]

(* Parser(text): Parser.__init__ *)
ParserNew ==
    /\ parser.pc = "text"
    /\ parser' = ParserOf(parser, Tokenize(parser.text))
    /\ UNCHANGED <<operators, expression_parser, planner>>

(* Parser(text).parse() *)
ParserParseQuery ==
    /\ parser.pc = "created"
    /\ parser' = [parser EXCEPT !.pc = "parsed", !.result = ParserParse(parser.tokens)]
    /\ UNCHANGED <<operators, expression_parser, planner>>

InitParser ==
    /\ \/ \E head \in StatementHeads, clauses \in ClauseLists :
             parser = NewText(head \o ClausesText(clauses), head, clauses)
       \/ \E text \in WhitespaceTexts : parser = NewText(text, <<>>, <<>>)
    /\ child = Idle
    /\ paginate = Idle
    /\ sort = Idle
    /\ extsort = Idle
    /\ tmpdir = NoFiles
    /\ filter = Idle
    /\ aggregate = Idle
    /\ join = Idle
    /\ project = Idle
    /\ expression_parser = Idle
    /\ planner = Idle

NextParser == ParserNew \/ ParserParseQuery

SpecParser == InitParser /\ [][NextParser]_vars

(***************************************************************************)
(* The words given to Tokenizer: a beginning, which is a keyword, a text   *)
(* operator or the letter x, followed by an end that keeps the word within *)
(* the IDENTIFIER pattern; and the texts of whitespace.                    *)
(***************************************************************************)
WordStarts ==
    {<<"d", "e", "s", "c">>,
     <<"a", "s">>,
     <<"f", "r", "o", "m">>,
     <<"o", "f", "f", "s", "e", "t">>,
     <<"S", "E", "L", "E", "C", "T">>,
     <<"a", "s", "c">>,
     <<"o", "r">>,
     <<"n", "o", "t">>,
     <<"x">>}

WordEnds ==
    {<<>>,
     <<"r", "i", "p", "t", "i", "o", "n">>,
     <<"s", "e", "t", "s">>,
     <<"a", "g", "e">>,
     <<"_", "x">>,
     <<"c">>,
     <<"1">>}

InitTokenizer ==
    /\ \/ \E start \in WordStarts, end \in WordEnds :
             parser = NewText(start \o end, start, <<>>)
       \/ \E text \in WhitespaceTexts : parser = NewText(text, <<>>, <<>>)
    /\ child = Idle
    /\ paginate = Idle
    /\ sort = Idle
    /\ extsort = Idle
    /\ tmpdir = NoFiles
    /\ filter = Idle
    /\ aggregate = Idle
    /\ join = Idle
    /\ project = Idle
    /\ expression_parser = Idle
    /\ planner = Idle

NextTokenizer == ParserNew

SpecTokenizer == InitTokenizer /\ [][NextTokenizer]_vars

(***************************************************************************)
(* ExternalSortKey over nullable columns (compute/sorting.py 329-352).     *)
(* A key value is what as_py() gives: None for a null, else the integer.   *)
(*   pc : keys (two keys built) | compared (self < other evaluated)        *)
(*   lt : unset | true | false | TypeError                                 *)
(***************************************************************************)
NullableValues == {None, Some(0), Some(1)}

(* v1 < v2 and v1 > v2 of Python: defined between integers, a TypeError when
   one operand is None *)
PyOrder(v1, v2, desc) ==
    IF v1 = None \/ v2 = None THEN "TypeError"
    ELSE IF desc THEN (IF v1[1] > v2[1] THEN "true" ELSE "false")
    ELSE (IF v1[1] < v2[1] THEN "true" ELSE "false")

RECURSIVE NullableKeyLt(_, _, _)
(* ExternalSortKey.__lt__, lines 343-352, on the values of line 341 *)
NullableKeyLt(values, other, descending_orders) ==
    IF values = <<>> \/ other = <<>> \/ descending_orders = <<>> THEN "false"
    ELSE IF Head(values) = Head(other)
    THEN NullableKeyLt(Tail(values), Tail(other), Tail(descending_orders))
    ELSE PyOrder(Head(values), Head(other), Head(descending_orders))

NewSortKeys(values, other, descending_orders) ==
    [pc |-> "keys", values |-> values, other |-> other,
     descending_orders |-> descending_orders, lt |-> "unset"]

(* sort_key < other_key, as heapq evaluates it on two heap entries *)
SortKeyCompare ==
    /\ extsort.pc = "keys"
    /\ extsort' = [extsort EXCEPT
                      !.pc = "compared",
                      !.lt = NullableKeyLt(extsort.values, extsort.other,
                                           extsort.descending_orders)]
    /\ UNCHANGED <<child, tmpdir, extsortRest, sqlRest>>

InitSortKeys ==
    /\ \E n \in 1..MaxSortKeys :
          \E values \in [1..n -> NullableValues], other \in [1..n -> NullableValues],
             descending_orders \in [1..n -> BOOLEAN] :
                extsort = NewSortKeys(values, other, descending_orders)
    /\ child = Idle
    /\ tmpdir = NoFiles
    /\ paginate = Idle
    /\ sort = Idle
    /\ filter = Idle
    /\ aggregate = Idle
    /\ join = Idle
    /\ project = Idle
    /\ expression_parser = Idle
    /\ parser = Idle
    /\ planner = Idle

NextSortKeys == SortKeyCompare

SpecSortKeys == InitSortKeys /\ [][NextSortKeys]_vars

(***************************************************************************)
(* Properties of PaginateNode.                                             *)
(***************************************************************************)
AllRows == Flatten(child._batches)

RowsEmitted == Flatten(paginate.out)

(* C1: once a finite child stream of n rows has been paginated with        *)
(* offset <= n, the emitted batches concatenate to exactly rows            *)
(* [offset, min(offset+length, n)) of the input, in input order.           *)
C1_PaginateEmitsWindow ==
    (/\ paginate.pc = "done"
     /\ ~child.infinite
     /\ paginate.offset <= Len(AllRows))
    => RowsEmitted = SubSeq(AllRows, paginate.offset + 1,
                            Min(paginate.offset + paginate.length, Len(AllRows)))

(* C5: once the batches pulled so far total at least offset+length rows,   *)
(* PaginateNode pulls no further child batch, and when resumed from its    *)
(* yield it closes the child (which still has batches) and ends.           *)
C5_PaginateStopsPulling ==
    [][(child.rows_out >= paginate.offset + paginate.length)
       => /\ child'.pos = child.pos
          /\ (paginate.pc = "yield")
              => (paginate'.pc = "done" /\ child'.state = "closed")]_vars

(* C6: over an unbounded child of non-empty batches, draining              *)
(* PaginateNode(offset=0, length=5) ends, having emitted exactly five rows *)
(* and closed the child generator, whose reader is thereby released.       *)
C6Case == child.infinite /\ paginate.offset = 0 /\ paginate.length = 5

C6_PaginateFiveThenRelease ==
    /\ [](C6Case /\ paginate.pc = "done"
            => /\ Len(RowsEmitted) = 5
               /\ child.state = "closed"
               /\ ~child.reader_open)
    /\ [](C6Case => Len(RowsEmitted) <= 5)
    /\ (C6Case ~> paginate.pc = "done")

C6_Witness ==
    C6Case /\ paginate.pc = "done" /\ Len(paginate.out) >= 2 /\ child.pos >= 3

(***************************************************************************)
(* Properties of the sort operators.                                       *)
(***************************************************************************)
(* how many times row r occurs in the batches bs *)
Occurrences(r, bs) ==
    LET rows == Flatten(bs) IN Cardinality({i \in DOMAIN rows : rows[i] = r})

SameMultiset(bs1, bs2) == \A r \in SortRows : Occurrences(r, bs1) = Occurrences(r, bs2)

(* row r1 must come strictly before r2: at the first key on which they
   differ, r1 has the smaller value (the larger one for a descending key) *)
StrictlyBefore(r1, r2, sorting) ==
    \E k \in DOMAIN sorting :
        /\ \A j \in 1..(k - 1) : r1[sorting[j].col] = r2[sorting[j].col]
        /\ IF sorting[k].desc THEN r1[sorting[k].col] > r2[sorting[k].col]
           ELSE r1[sorting[k].col] < r2[sorting[k].col]

OrderedBy(rows, sorting) ==
    \A i, j \in DOMAIN rows : i < j => ~StrictlyBefore(rows[j], rows[i], sorting)

(* C2: a fully drained SortNode over one or more batches has emitted every *)
(* input row exactly once, and the concatenated output is ordered by the   *)
(* keys under their directions.                                            *)
C2_SortNodeSortsAll ==
    (sort.pc = "done" /\ ~sort.closed /\ Len(child._batches) >= 1)
    => /\ SameMultiset(sort.out, child._batches)
       /\ OrderedBy(Flatten(sort.out), sort.sorting)

(* C3: over one or more non-empty batches, with no failure of the child or  *)
(* of a temporary-file write, ExternalSortNode raises nothing, and once    *)
(* fully drained it has emitted exactly the multiset of input rows,        *)
(* lexicographically ordered by the keys under their directions.           *)
C3Case ==
    /\ Len(child._batches) >= 1
    /\ \A i \in DOMAIN child._batches : child._batches[i] # <<>>
    /\ extsort.pc # "idle"
    /\ extsort.fault = "none"

C3_ExternalSortSortsAll ==
    C3Case
    => /\ extsort.pc # "error"
       /\ (extsort.pc = "done" /\ ~extsort.closed)
          => /\ SameMultiset(extsort.out, child._batches)
             /\ OrderedBy(Flatten(extsort.out), extsort.sorting)

C3_Witness ==
    /\ C3Case
    /\ extsort.pc = "done"
    /\ ~extsort.closed
    /\ Len(child._batches) = 2
    /\ Len(extsort.sorting) = 2
    /\ Len(extsort.out) >= 2
    /\ \E i, j \in DOMAIN extsort.sorting : extsort.sorting[i].desc /\ ~extsort.sorting[j].desc

(* C4: when the generator of ExternalSortNode has finished, by full drain, *)
(* by the consumer's close or by an error, no temporary file it created is *)
(* left.                                                                   *)
C4_ExternalSortDeletesFiles ==
    extsort.pc \in {"done", "error"} => tmpdir.existing = {}

(***************************************************************************)
(* Properties of FilterNode.                                               *)
(***************************************************************************)
(* the rows of s on which the predicate is true, as a subsequence of s *)
TrueRows(s, expression) == SelectSeq(s, LAMBDA r : expression[r[2]] = "true")

(* C7: FilterNode emits one batch per child batch pulled (none for the     *)
(* batch on which the predicate raised), the k-th holding                  *)
(* exactly the rows of the k-th child batch on which the predicate is      *)
(* true, in order and with their columns unchanged; drained, the output    *)
(* concatenates to the true rows of the whole stream.                      *)
C7_FilterKeepsTrueRows ==
    filter.pc # "idle"
    => /\ Len(filter.out) = IF filter.pc = "error" THEN child.pos - 1 ELSE child.pos
       /\ \A k \in DOMAIN filter.out :
             filter.out[k] = TrueRows(child._batches[k], filter.expression)
       /\ (child.state = "exhausted")
          => Flatten(filter.out) = TrueRows(Flatten(child._batches), filter.expression)

C7_Witness ==
    /\ filter.pc = "done"
    /\ child.state = "exhausted"
    /\ Len(filter.out) = 2
    /\ Len(Flatten(child._batches)) = 3
    /\ Len(Flatten(filter.out)) = 1
    /\ \E v \in FilterValues : filter.expression[v] = "null"

(***************************************************************************)
(* Properties of AggregateNode.                                            *)
(***************************************************************************)
InputRows == Flatten(child._batches)

(* the key combinations that occur in the input *)
KeysOfInput == {RowKey(InputRows[i], aggregate.keys) : i \in DOMAIN InputRows}

(* the sum of column c over the input rows with key combination key *)
SumOfKey(key) ==
    SumSeq(Column(SelectSeq(InputRows, LAMBDA r : RowKey(r, aggregate.keys) = key), 3))

KeyPart(row) == SubSeq(row, 1, Len(aggregate.keys))

C9_JoinCombinesEqualKeys ==
    join.pc \in {"yield", "done"}
    => LET rows == join.out[1]
           left_rows == Range(Flatten(join.left_child))
           right_rows == Range(Flatten(join.right_child))
       IN  /\ \A i \in DOMAIN rows :
                 \E l \in left_rows, r \in right_rows :
                    /\ rows[i] = <<l[1], l[2], r[2]>>
                    /\ l[join.left_key] = r[join.right_key]
           /\ \A i, j \in DOMAIN rows :
                 i < j => rows[i][join.left_key] <= rows[j][join.left_key]

(* the two sides as lines 198-211 filter them, from the collected batches *)
FilteredLeft ==
    FilteredSide(join.left_rb, join.left_key,
                 Unique(Column(join.right_rb, join.right_key), <<>>))

FilteredRight ==
    FilteredSide(join.right_rb, join.right_key,
                 Unique(Column(join.left_rb, join.left_key), <<>>))

(* C27: in the step of InnnerJoinNode that combines the two collected      *)
(* sides, the left side filtered to the keys of the right side and the     *)
(* right side filtered to the keys of the left side have the same number   *)
(* of rows, also when a key value is repeated.                             *)
C27_FilteredSidesSameLength ==
    [][(join.pc = "combine" /\ join'.pc # "combine")
          => Len(FilteredLeft) = Len(FilteredRight)]_vars

(***************************************************************************)
(* Properties of ProjectNode.                                              *)
(***************************************************************************)
(* the value of the column called name in a row given as [names, values] *)
NamedValue(row, name) ==
    row.values[CHOOSE c \in DOMAIN row.names : row.names[c] = name]

(* the value of an expression on one row *)
ValueOn(expr, row) ==
    IF expr.kind = "ColumnRef" THEN NamedValue(row, expr.name)
    ELSE IF expr.name = "divide"
    THEN NamedValue(row, expr.args[1].name) \div NamedValue(row, expr.args[2].name)
    ELSE NamedValue(row, expr.args[1].name) + NamedValue(row, expr.args[2].name)

RECURSIVE ExtendedRow(_, _, _)
(* a child row extended with the first k projections, each evaluated on
   the row extended with the ones before it *)
ExtendedRow(values, project_dict, k) ==
    IF k = 0 THEN [names |-> ChildSchema, values |-> values]
    ELSE LET earlier == ExtendedRow(values, project_dict, k - 1)
         IN  [names |-> Append(earlier.names, project_dict[k].name),
              values |-> Append(earlier.values, ValueOn(project_dict[k].expr, earlier))]

(* the original columns a batch keeps: the keep-list, or all for None *)
KeptColumns == IF project.select = <<"None">> THEN ChildSchema ELSE project.select[2]

(* C10: ProjectNode emits one batch per child batch pulled (none for the   *)
(* batch on which a column lookup raised).  Its columns are the keep-list  *)
(* columns, or all original columns for a null keep-list, followed by the  *)
(* projected names in insertion order; each row holds the kept values of   *)
(* the child row and, for each projection, its expression evaluated on the *)
(* child row extended with all earlier projections.                        *)
C10_ProjectInOrder ==
    project.pc # "idle"
    => /\ Len(project.out) = IF project.pc = "error" THEN child.pos - 1 ELSE child.pos
       /\ \A k \in DOMAIN project.out :
             LET in == child._batches[k]
                 b == project.out[k]
             IN  /\ b.names = KeptColumns \o ProjectKeys(project.project)
                 /\ Len(b.rows) = Len(in)
                 /\ \A i \in DOMAIN in :
                       LET row == ExtendedRow(in[i], project.project, Len(project.project))
                       IN  /\ Len(b.rows[i]) = Len(b.names)
                           /\ \A c \in DOMAIN KeptColumns :
                                 b.rows[i][c] = NamedValue(ExtendedRow(in[i], <<>>, 0),
                                                           KeptColumns[c])
                           /\ \A j \in DOMAIN project.project :
                                 b.rows[i][Len(KeptColumns) + j]
                                    = row.values[Len(ChildSchema) + j]

C10_Witness ==
    /\ project.pc = "done"
    /\ child.state = "exhausted"
    /\ Len(project.out) = 2
    /\ project.out[1].rows # <<>>
    /\ project.select = <<"list", <<"a">>>>
    /\ Len(project.project) = 2
    /\ project.project[1].expr = FunctionCallExpression("add", <<ColumnRef("a"), ColumnRef("b")>>)
    /\ project.project[2].expr
          = FunctionCallExpression("add", <<ColumnRef(project.project[1].name), ColumnRef("b")>>)

(***************************************************************************)
(* Properties of ExpressionParser.                                         *)
(***************************************************************************)
(* C17: an expression written with parentheses only where the precedence   *)
(* OR < AND < NOT < comparison < + - < * / < unary minus < primary and     *)
(* left association of binary operators require them parses, all tokens    *)
(* consumed, to the AST it was written from; of two comparison operators   *)
(* in a row only the first is taken.                                       *)
C17_PrecedenceAndAssociativity ==
    expression_parser.pc = "parsed"
    => IF expression_parser.source # None
       THEN /\ expression_parser.result.ok
            /\ expression_parser.result.pos = Len(expression_parser.tokens)
            /\ expression_parser.result.ast = expression_parser.source[1]
       ELSE /\ expression_parser.result.ok
            /\ expression_parser.result.pos = 3
            /\ expression_parser.result.ast.type = "comparison"
            /\ expression_parser.result.ast.op = expression_parser.tokens[2].value
            /\ expression_parser.result.ast.left = Identifier(<<"a">>)
            /\ expression_parser.result.ast.right = Literal(<<"int", 1>>)

C17_Witness ==
    /\ expression_parser.pc = "parsed"
    /\ expression_parser.source
          = Some(BinaryNode(<<"*">>, BinaryNode(<<"-">>, Identifier(<<"a">>), Literal(<<"int", 1>>)),
                            Identifier(<<"a">>)))
    /\ Len(expression_parser.tokens) = 7
    /\ expression_parser.result.pos = 7

(***************************************************************************)
(* Properties of SQLQueryPlanner: expressions.                             *)
(***************************************************************************)
RECURSIVE OperatorsOnly(_)
(* the AST is made of the operators + - * / = < > <= >= <> != AND OR NOT
   and unary minus over identifiers and literals *)
OperatorsOnly(ast) ==
    CASE ast.type \in {"conjunction", "binary_op", "comparison"} ->
           OperatorsOnly(ast.left) /\ OperatorsOnly(ast.right)
      [] ast.type = "unary_op" -> OperatorsOnly(ast.operand)
      [] ast.type \in {"identifier", "literal"} -> TRUE
      [] OTHER -> FALSE

(* C13: every AST the expression parser returns for the binary operators,  *)
(* unary minus and NOT over identifiers and literals is lowered by         *)
(* _parse_expression to a function call expression, no exception raised.   *)
C13_EveryOperatorLowered ==
    (planner.pc = "lowered" /\ OperatorsOnly(planner.node))
    => /\ planner.expression.ok
       /\ planner.node.type \notin {"identifier", "literal"}
          => planner.expression.value.kind = "FunctionCall"

(***************************************************************************)
(* Properties of SQLQueryPlanner: plans.                                   *)
(***************************************************************************)
(* C11: a second planner given the same AST builds a plan equal to the     *)
(* first, and the AST is after planning what it was before.                *)
C11_PlanTwiceSamePlan ==
    /\ planner.pc \in {"planned", "replanned"} => planner.query = planner.query0
    /\ planner.pc = "replanned" => planner.again = planner.plan

(* the first plan: the plan built or the exception raised *)
FirstPlan == planner.plan[1]

(* planning went through every clause of the query: it returned a plan, or
   the constructor of the PaginateNode raised *)
ClausesPlanned ==
    /\ planner.pc = "planned"
    /\ FirstPlan.ok \/ FirstPlan.value.kind = "TypeError"

(* C12: LIMIT n alone is planned as PaginateNode(offset 0, length n),      *)
(* OFFSET m alone as a PaginateNode of offset m (and unbounded length),    *)
(* both as PaginateNode(offset m, length n), neither as no PaginateNode.   *)
C12_PaginationOfLimitOffset ==
    ClausesPlanned
    => LET limit == planner.query0.limit
           offset == planner.query0.offset
       IN  /\ (limit # None /\ offset = None)
              => /\ FirstPlan.ok
                 /\ FirstPlan.value.node = "PaginateNode"
                 /\ FirstPlan.value.offset = 0
                 /\ FirstPlan.value.length = limit[1]
           /\ (limit = None /\ offset # None)
              => /\ FirstPlan.ok
                 /\ FirstPlan.value.node = "PaginateNode"
                 /\ FirstPlan.value.offset = offset[1]
           /\ (limit # None /\ offset # None)
              => /\ FirstPlan.ok
                 /\ FirstPlan.value.node = "PaginateNode"
                 /\ FirstPlan.value.offset = offset[1]
                 /\ FirstPlan.value.length = limit[1]
           /\ (limit = None /\ offset = None)
              => /\ FirstPlan.ok
                 /\ FirstPlan.value.node # "PaginateNode"

(* the node kinds the claim expects above the FROM source, outermost first *)
ExpectedLayers(query) ==
    (IF query.limit # None \/ query.offset # None THEN <<"PaginateNode">> ELSE <<>>)
    \o (IF query.order_by # None THEN <<"SortNode">> ELSE <<>>)
    \o <<"ProjectNode">>
    \o (IF query.group_by \notin {None, Some(<<>>)} THEN <<"AggregateNode">> ELSE <<>>)
    \o (IF query.where # None THEN <<"FilterNode">> ELSE <<>>)

RECURSIVE Descend(_, _)
(* the node n children below *)
Descend(plan, n) == IF n = 0 THEN plan ELSE Descend(plan.child, n - 1)

(* the node is a ProjectNode over the data source of the table that keeps
   no column and projects each column c as tablename.c *)
IsTableProject(plan, tablename) ==
    /\ plan.node = "ProjectNode"
    /\ plan.select = <<>>
    /\ plan.child = DataSourceNode(tablename)
    /\ Len(plan.project) = Len(Catalog[tablename])
    /\ \A i \in DOMAIN plan.project :
          /\ plan.project[i].name = tablename \o <<".">> \o Catalog[tablename][i]
          /\ plan.project[i].expr = ColumnRef(Catalog[tablename][i])

IsSource(plan, from_entry) ==
    IF from_entry.type = "identifier" THEN IsTableProject(plan, from_entry.value)
    ELSE /\ plan.node = "InnnerJoinNode"
         /\ IsTableProject(plan.left_child, from_entry.left_table.value)
         /\ IsTableProject(plan.right_child, from_entry.right_table.value)

HasNesting(plan, query) ==
    LET layers == ExpectedLayers(query)
    IN  /\ \A i \in DOMAIN layers : Descend(plan, i - 1).node = layers[i]
        /\ IsSource(Descend(plan, Len(layers)), query.from[1])

(* C14: every query whose clauses the planner accepts gets a plan, nested   *)
(* Paginate > Sort > Project > Aggregate > Filter > source with each layer  *)
(* present iff its clause is, each table under a renaming ProjectNode.      *)
C14_PlanNesting ==
    ClausesPlanned => (FirstPlan.ok /\ HasNesting(FirstPlan.value, planner.query0))

(* the tables named in the FROM clause of the query *)
FromTables(query) ==
    IF query.from[1].type = "identifier" THEN {query.from[1].value}
    ELSE {query.from[1].left_table.value, query.from[1].right_table.value}

Holders(query, x) == {table \in FromTables(query) : x \in Range(Catalog[table])}

IsAmbiguous(query, x) == "." \notin Range(x) /\ Cardinality(Holders(query, x)) >= 2

(* the name the claim gives the identifier x of the query *)
Resolved(query, x) ==
    IF "." \in Range(x) \/ Holders(query, x) = {} THEN x
    ELSE (CHOOSE table \in Holders(query, x) : TRUE) \o <<".">> \o x

RECURSIVE IdentifiersIn(_)
(* the identifiers of an expression, as a set of names *)
IdentifiersIn(ast) ==
    CASE ast.type = "identifier" -> {ast.value}
      [] ast.type \in {"conjunction", "binary_op", "comparison"} ->
           IdentifiersIn(ast.left) \cup IdentifiersIn(ast.right)
      [] ast.type = "function_call" -> UNION {IdentifiersIn(ast.args[i]) : i \in DOMAIN ast.args}
      [] OTHER -> {}

(* the identifiers of the query in the join condition, WHERE, GROUP BY,
   the projections with the arguments of their aggregations, and ORDER BY *)
QueryIdentifiers(query) ==
    (IF query.from[1].type = "join" THEN IdentifiersIn(query.from[1].join_condition[1]) ELSE {})
    \cup (IF query.where # None THEN IdentifiersIn(query.where[1]) ELSE {})
    \cup (IF query.group_by # None
          THEN {query.group_by[1][i].value : i \in DOMAIN query.group_by[1]} ELSE {})
    \cup UNION {IdentifiersIn(query.projections[i].value) : i \in DOMAIN query.projections}
    \cup (IF query.order_by # None
          THEN {query.order_by[1][i].column.value : i \in DOMAIN query.order_by[1]} ELSE {})

RECURSIVE LayerOf(_, _)
(* the first node of the kind, from the top of the plan down *)
LayerOf(plan, kind) == IF plan.node = kind THEN plan ELSE LayerOf(plan.child, kind)

DictHas(dict, name, expr) == \E i \in DOMAIN dict : dict[i].name = name /\ dict[i].expr = expr

IsAggregationCall(ast) == ast.type = "function_call" /\ ast.name \in DOMAIN AGGREGATIONS_MAP

(* the projection of the query is in the ProjectNode, or its aggregation in
   the AggregateNode, with every identifier under its resolved name *)
ProjectionResolved(plan, query, projection) ==
    LET value == projection.value
        top == LayerOf(plan, "ProjectNode")
    IN  CASE value.type = "identifier" ->
               LET name == Resolved(query, value.value)
               IN  IF projection.alias # None
                   THEN DictHas(top.project, projection.alias[1], ColumnRef(name))
                   ELSE IF name # value.value
                   THEN DictHas(top.project, value.value, ColumnRef(name))
                   ELSE name \in Range(top.select)
          [] IsAggregationCall(value) ->
               DictHas(LayerOf(plan, "AggregateNode").aggregations, projection.alias[1],
                       Aggregation(AGGREGATIONS_MAP[value.name],
                                   Resolved(query, value.args[1].value)))
          [] OTHER ->
               DictHas(top.project, projection.alias[1],
                       FunctionCallExpression(FUNCTIONS_MAP[value.op],
                                              <<ColumnRef(Resolved(query, value.left.value)),
                                                Lit(value.right.value)>>))

EveryIdentifierResolved(plan, query) ==
    /\ query.from[1].type = "join"
       => LET condition == query.from[1].join_condition[1]
              joined == LayerOf(plan, "InnnerJoinNode")
          IN  /\ joined.left_key = Resolved(query, condition.left.value)
              /\ joined.right_key = Resolved(query, condition.right.value)
    /\ query.where # None
       => LayerOf(plan, "FilterNode").expression.args[1]
             = ColumnRef(Resolved(query, query.where[1].left.value))
    /\ query.group_by # None
       => LayerOf(plan, "AggregateNode").keys
             = [i \in DOMAIN query.group_by[1] |-> Resolved(query, query.group_by[1][i].value)]
    /\ \A i \in DOMAIN query.projections :
          ProjectionResolved(plan, query, query.projections[i])
    /\ query.order_by # None
       => LayerOf(plan, "SortNode").keys
             = [i \in DOMAIN query.order_by[1] |->
                   Resolved(query, query.order_by[1][i].column.value)]

(* C15: in a plan every identifier of the join condition, WHERE, GROUP BY,  *)
(* the projections, the aggregation arguments and ORDER BY is table.x when  *)
(* exactly one table of FROM has the column x, x when none has it, and      *)
(* unchanged when dotted; planning raises when two tables have x, and it    *)
(* raises the ambiguity error only then.                                    *)
C15_IdentifiersResolved ==
    planner.pc = "planned"
    => LET query == planner.query0
           ambiguous == {x \in QueryIdentifiers(query) : IsAmbiguous(query, x)}
       IN  /\ FirstPlan.ok => (ambiguous = {} /\ EveryIdentifierResolved(FirstPlan.value, query))
           /\ ambiguous # {} => ~ FirstPlan.ok
           /\ (~ FirstPlan.ok /\ FirstPlan.value.name = <<"Ambiguous column name">>)
              => ambiguous # {}

C15_Witness ==
    /\ planner.pc = "planned"
    /\ FirstPlan.ok
    /\ planner.query0
          = SelectNode(<<Projection(Identifier(<<"b">>), Some(<<"x">>)),
                         Projection(FunctionCallNode(<<"S", "U", "M">>, <<Identifier(<<"b">>)>>),
                                    Some(<<"s">>))>>,
                       <<JoinNode(<<"t">>, <<"u">>,
                                  Some(BinaryNode(<<"=">>, Identifier(<<"b">>),
                                                  Identifier(<<"c">>))))>>,
                       None, Some(<<Identifier(<<"b">>)>>),
                       Some(<<Ordering(<<"s">>, <<"D", "E", "S", "C">>)>>), None, None)
    /\ LayerOf(FirstPlan.value, "InnnerJoinNode").left_key = <<"t", ".", "b">>
    /\ LayerOf(FirstPlan.value, "AggregateNode").keys = << <<"t", ".", "b">> >>
    /\ LayerOf(FirstPlan.value, "SortNode").keys = << <<"s">> >>

(***************************************************************************)
(* Properties of SQLQueryPlanner: the names the nodes of a plan use.       *)
(***************************************************************************)
(* the columns of the batches a ProjectNode of a plan emits, in order: the
   restrict_columns of ProjectNode.__init__ *)
OutputSchema(plan) == RestrictColumns(<<"list", plan.select>>, plan.project)[2]

(* the ORDER BY column is an unqualified column of the table of the query
   that the SELECT list holds without alias *)
SortsSelectedColumn(query, ordering) ==
    /\ "." \notin Range(ordering.column.value)
    /\ ordering.column.value \in Range(Catalog[query.from[1].value])
    /\ \E i \in DOMAIN query.projections :
          query.projections[i] = Projection(ordering.column, None)

(* C28: in a plan of a query on one table whose ORDER BY columns are        *)
(* unqualified columns of the table that the SELECT list holds without     *)
(* alias, every key of the SortNode is a column of the batches its child   *)
(* ProjectNode emits.                                                      *)
C28_SortKeysInProjectOutput ==
    (/\ planner.pc = "planned"
     /\ FirstPlan.ok
     /\ planner.query0.from[1].type = "identifier"
     /\ planner.query0.order_by # None
     /\ \A i \in DOMAIN planner.query0.order_by[1] :
           SortsSelectedColumn(planner.query0, planner.query0.order_by[1][i]))
    => LET sorted == LayerOf(FirstPlan.value, "SortNode")
       IN  /\ sorted.child.node = "ProjectNode"
           /\ \A k \in DOMAIN sorted.keys : sorted.keys[k] \in Range(OutputSchema(sorted.child))

(* the name of the output column of a projection of the SELECT list: its
   alias, or the identifier as it is written *)
OutputName(projection) ==
    IF projection.alias # None THEN projection.alias[1] ELSE projection.value.value

(* every projection has an output name, and no two have the same *)
DistinctOutputNames(projections) ==
    /\ \A i \in DOMAIN projections :
          projections[i].alias # None \/ projections[i].value.type = "identifier"
    /\ \A i, j \in DOMAIN projections :
          i # j => OutputName(projections[i]) # OutputName(projections[j])

(* C29: when the output names of the SELECT list are pairwise distinct,    *)
(* the columns of the batches of the top ProjectNode of the plan are the   *)
(* output names in the order of the SELECT list, for bare and aliased      *)
(* columns, aggregations moved to the AggregateNode and computed           *)
(* expressions alike.                                                      *)
C29_ColumnsInSelectOrder ==
    (/\ planner.pc = "planned"
     /\ FirstPlan.ok
     /\ DistinctOutputNames(planner.query0.projections))
    => OutputSchema(LayerOf(FirstPlan.value, "ProjectNode"))
          = [i \in DOMAIN planner.query0.projections |->
                OutputName(planner.query0.projections[i])]

(* the columns of a table of the catalog under their namespaced names *)
NamespacedColumns(tablename) ==
    {tablename \o <<".">> \o Catalog[tablename][i] : i \in DOMAIN Catalog[tablename]}

(* C30: the InnnerJoinNode planned for A JOIN B ON x = y has for left_key a *)
(* column of the namespaced table A and for right_key a column of the      *)
(* namespaced table B, on whichever side of = each is written.             *)
C30_JoinKeysOfTheirSides ==
    (/\ planner.pc = "planned"
     /\ FirstPlan.ok
     /\ planner.query0.from[1].type = "join")
    => LET joined == LayerOf(FirstPlan.value, "InnnerJoinNode")
       IN  /\ joined.left_key \in NamespacedColumns(planner.query0.from[1].left_table.value)
           /\ joined.right_key \in NamespacedColumns(planner.query0.from[1].right_table.value)

(***************************************************************************)
(* Properties of SQLQueryPlanner: GROUP BY.                                *)
(***************************************************************************)
(* the projections of the query that are calls of an aggregation *)
AggregatedProjections(query) ==
    {i \in DOMAIN query.projections : IsAggregationCall(query.projections[i].value)}

(* C16: under a non-empty GROUP BY, a plan has every aliased aggregation    *)
(* call of the projections in the aggregation map of the AggregateNode      *)
(* under its alias and nothing else there, the projection list holds the    *)
(* identifier of the alias in its place, which the ProjectNode selects,     *)
(* and every other projection is unchanged and in the ProjectNode; an       *)
(* aggregation call without alias makes planning raise.                     *)
C16_AggregationsMoved ==
    (planner.pc = "planned" /\ planner.query0.group_by \notin {None, Some(<<>>)})
    => LET query == planner.query0
           aggregated == AggregatedProjections(query)
           unnamed == {i \in aggregated : query.projections[i].alias = None}
       IN  /\ unnamed # {}
              => /\ ~ FirstPlan.ok
                 /\ FirstPlan.value.name
                       \in {<<"Aggregations must have an alias">>, <<"Ambiguous column name">>}
           /\ FirstPlan.ok
              => LET aggregations == LayerOf(FirstPlan.value, "AggregateNode").aggregations
                     top == LayerOf(FirstPlan.value, "ProjectNode")
                 IN  /\ \A i \in aggregated :
                           LET projection == query.projections[i]
                           IN  /\ DictHas(aggregations, projection.alias[1],
                                          Aggregation(AGGREGATIONS_MAP[projection.value.name],
                                                      Resolved(query, projection.value.args[1].value)))
                               /\ planner.query.projections[i]
                                     = Projection(Identifier(projection.alias[1]), None)
                               /\ projection.alias[1] \in Range(top.select)
                     /\ \A k \in DOMAIN aggregations :
                           \E i \in aggregated : query.projections[i].alias = Some(aggregations[k].name)
                     /\ \A i \in DOMAIN query.projections \ aggregated :
                           /\ planner.query.projections[i] = query.projections[i]
                           /\ ProjectionResolved(FirstPlan.value, query, query.projections[i])

C16_Witness ==
    /\ planner.pc = "planned"
    /\ FirstPlan.ok
    /\ planner.query0.group_by = Some(<<Identifier(<<"b">>)>>)
    /\ planner.query0.projections
          = <<Projection(Identifier(<<"b">>), Some(<<"x">>)),
              Projection(FunctionCallNode(<<"S", "U", "M">>, <<Identifier(<<"b">>)>>),
                         Some(<<"s">>))>>
    /\ planner.query.projections[2] = Projection(Identifier(<<"s">>), None)
    /\ LayerOf(FirstPlan.value, "AggregateNode").aggregations
          = <<[name |-> <<"s">>, expr |-> Aggregation("SumAggregation", <<"t", ".", "b">>)]>>

(***************************************************************************)
(* Properties of Parser and SelectStatementParser                          *)
(***************************************************************************)
(* the clauses of the text are in the order of the grammar, each at most
   once, and nothing else follows them *)
ClausesInOrder(clauses) ==
    /\ \A i \in DOMAIN clauses : clauses[i] # StrayToken
    /\ \A i, j \in DOMAIN clauses : i < j => clauses[i] < clauses[j]

(* the value the AST has for the optional clause number c of ClauseTexts *)
ClauseValue(c) ==
    CASE c = 1 -> BinaryNode(<<"=">>, Identifier(<<"a">>), Literal(<<"int", 1>>))
      [] c = 2 -> <<Identifier(<<"a">>), Identifier(<<"b">>)>>
      [] c = 3 -> <<Ordering(<<"a">>, <<"D", "E", "S", "C">>), Ordering(<<"b">>, <<"A", "S", "C">>)>>
      [] c = 4 -> 1
      [] c = 5 -> 2

(* the field of the AST is the value of the clause c when the text has it,
   and None when it has not *)
ClauseField(clauses, c, field) ==
    IF c \in Range(clauses) THEN field = Some(ClauseValue(c)) ELSE field = None

SelectFields ==
    {"type", "projections", "from", "where", "group_by", "order_by", "limit", "offset"}

(* C18: SelectStatementParser.parse accepts the tokens of SELECT projections
   FROM tables followed by clauses only if each optional clause appears at
   most once, in the order WHERE, GROUP BY, ORDER BY, LIMIT, OFFSET, and
   every token is consumed; the AST it returns has the fields projections,
   from, where, group_by, order_by, limit and offset, with None for each
   absent clause; a missing FROM or a leftover token raises SQLParseError. *)
C18_ClausesOnceInOrder ==
    (parser.pc = "parsed" /\ Len(parser.tokens) > 0 /\ parser.tokens[1].kind = "SelectToken") =>
        LET result == parser.result
            ast == result.ast
        IN  /\ result.ok =>
                /\ parser.head \in CompleteHeads
                /\ ClausesInOrder(parser.clauses)
                /\ result.pos = Len(parser.tokens)
                /\ DOMAIN ast = SelectFields
                /\ ast.type = "select"
                /\ Len(ast.projections) > 0
                /\ Len(ast.from) = 1
                /\ ClauseField(parser.clauses, 1, ast.where)
                /\ ClauseField(parser.clauses, 2, ast.group_by)
                /\ ClauseField(parser.clauses, 3, ast.order_by)
                /\ ClauseField(parser.clauses, 4, ast.limit)
                /\ ClauseField(parser.clauses, 5, ast.offset)
            /\ (parser.head \in CompleteHeads /\ ClausesInOrder(parser.clauses)) => result.ok
            /\ ~ result.ok => ast.type = "SQLParseError"

(* a statement with a join, WHERE and LIMIT, in the order of the grammar,
   was accepted *)
C18_Witness ==
    /\ parser.pc = "parsed"
    /\ parser.result.ok
    /\ parser.result.ast.from[1].type = "join"
    /\ parser.clauses = <<1, 4>>

(* C19: Parser.parse dispatches on the first token only: with a SELECT
   token first it returns or raises what SelectStatementParser.parse does,
   with an INSERT or UPDATE token first it raises NotImplementedError,
   which is not the parse error, whatever follows, and with any other first
   token it raises SQLParseError 'Unsupported statement type'. *)
C19_DispatchOnFirstToken ==
    (parser.pc = "parsed" /\ parser.tokens # <<>>) =>
        LET first == parser.tokens[1].kind
            result == parser.result
        IN  /\ first = "SelectToken" => result = SelectStatementParse(parser.tokens)
            /\ first \in {"InsertToken", "UpdateToken"} =>
                  /\ ~ result.ok
                  /\ result.ast.type = "NotImplementedError"
                  /\ result.ast.type # SQLParseError("").ast.type
            /\ first \notin {"SelectToken", "InsertToken", "UpdateToken"} =>
                  result = SQLParseError("Unsupported statement type")

(* INSERT followed by what would be a complete statement after SELECT was
   refused as not implemented *)
C19_Witness ==
    /\ parser.pc = "parsed"
    /\ parser.tokens # <<>>
    /\ parser.tokens[1].kind = "InsertToken"
    /\ parser.clauses = <<1, 4>>
    /\ parser.result.ast.type = "NotImplementedError"

(* the text is empty or has whitespace only *)
IsBlank(text) == \A i \in DOMAIN text : IsSpace(text[i])

(* C20: Parser(text).parse() raises SQLParseError with the message
   'Empty Query.' whenever text is empty or consists only of whitespace:
   the tokenizer returns no token for such a text, without raising, and
   parse() refuses the empty list of tokens. *)
C20_EmptyQuery ==
    (IsBlank(parser.text) /\ parser.pc # "text") =>
        /\ parser.pc # "failed"
        /\ parser.tokens = <<>>
        /\ parser.pc = "parsed" => parser.result = SQLParseError("Empty Query.")

(* a text of a space and a tab was parsed *)
C20_Witness ==
    /\ parser.pc = "parsed"
    /\ parser.text = <<" ", "\t">>
    /\ parser.result = SQLParseError("Empty Query.")

(***************************************************************************)
(* The aggregation families (compute/aggregate.py 269-347) on the rows of  *)
(* one group, a column of nullable integers cut into non-empty chunks.     *)
(*   pc : chunks (the chunks are given) | reduced                          *)
(***************************************************************************)
AggregationKinds == {"sum", "min", "max", "count", "mean"}

GroupValues == {None, Some(0 - 1), Some(1), Some(2)}

(* the ways to cut a column into non-empty chunks *)
Chunkings(column) ==
    {chunks \in UNION {Splits(column, k) : k \in 1..Len(column)} :
        \A i \in DOMAIN chunks : chunks[i] # <<>>}

(* the valid values of a column of optional values *)
Valid(xs) == SelectSeq(xs, LAMBDA v : v # None)

RECURSIVE Fold(_, _, _)
(* the values of a non-empty column of valid values folded by op *)
Fold(op(_, _), xs, acc) ==
    IF xs = <<>> THEN acc ELSE Fold(op, Tail(xs), op(acc, Head(xs)[1]))

FoldValid(op(_, _), valid) ==
    IF valid = <<>> THEN None ELSE Some(Fold(op, Tail(valid), Head(valid)[1]))

Plus(a, b) == a + b

(* pc.sum, pc.min, pc.max: nulls are skipped, null when nothing is valid *)
PcSum(xs) == FoldValid(Plus, Valid(xs))

PcMin(xs) == FoldValid(Min, Valid(xs))

PcMax(xs) == FoldValid(Max, Valid(xs))

(* pc.count: the number of valid values *)
PcCount(xs) == Some(Len(Valid(xs)))

(* pc.divide of two int64 scalars: null when one is null, the quotient
   truncated toward zero; a zero divisor raises *)
PcDivide(a, b) ==
    IF a = None \/ b = None THEN None
    ELSE IF b[1] = 0 THEN <<"ArrowInvalid">>
    ELSE IF a[1] >= 0 THEN Some(a[1] \div b[1])
    ELSE Some(0 - ((0 - a[1]) \div b[1]))

(* compute_chunk of each family, lines 285-286, 320-322, 338-341 *)
AggregationComputeChunk(kind, column) ==
    CASE kind = "sum" -> PcSum(column)
      [] kind = "min" -> PcMin(column)
      [] kind = "max" -> PcMax(column)
      [] kind = "count" -> PcCount(column)
      [] kind = "mean" -> <<PcCount(column), PcSum(column)>>

(* a slip AggregationReduce could have: CountAggregation reduced as a
   SimpleAggregation, by the function of its chunks *)
AggregationReduceSimple(kind, chunks) ==
    CASE kind = "sum" -> PcSum(chunks)
      [] kind = "min" -> PcMin(chunks)
      [] kind = "max" -> PcMax(chunks)
      [] kind = "count" -> PcCount(chunks)
      [] kind = "mean" -> PcDivide(PcSum([i \in DOMAIN chunks |-> chunks[i][2]]),
                                   PcSum([i \in DOMAIN chunks |-> chunks[i][1]]))

(* reduce of each family, lines 288-289, 324-326, 343-347 *)
AggregationReduce(kind, chunks) ==
    CASE kind = "sum" -> PcSum(chunks)
      [] kind = "min" -> PcMin(chunks)
      [] kind = "max" -> PcMax(chunks)
      [] kind = "count" -> PcSum(chunks)
      [] kind = "mean" -> PcDivide(PcSum([i \in DOMAIN chunks |-> chunks[i][2]]),
                                   PcSum([i \in DOMAIN chunks |-> chunks[i][1]]))

NewAggregation(kind, chunks) ==
    [pc |-> "chunks", kind |-> kind, chunks |-> chunks, partials |-> <<>>, result |-> None]

(* the partials of the chunks, as the node appends them batch by batch *)
Partials(kind, chunks) ==
    [i \in DOMAIN chunks |-> AggregationComputeChunk(kind, chunks[i])]

Reduced(a, partials) ==
    [a EXCEPT !.pc = "reduced", !.partials = partials,
              !.result = AggregationReduce(a.kind, partials)]

(* compute_chunk on every chunk of the group, then reduce on the partials *)
AggregationReduceChunks ==
    /\ aggregate.pc = "chunks"
    /\ aggregate' = Reduced(aggregate, Partials(aggregate.kind, aggregate.chunks))
    /\ UNCHANGED <<child, aggregateRest, sqlRest>>

InitAggregations ==
    /\ \E kind \in AggregationKinds, column \in SeqsUpTo(GroupValues, MaxRows) :
          \E chunks \in Chunkings(column) : aggregate = NewAggregation(kind, chunks)
    /\ child = Idle
    /\ paginate = Idle
    /\ sort = Idle
    /\ extsort = Idle
    /\ tmpdir = NoFiles
    /\ filter = Idle
    /\ join = Idle
    /\ project = Idle
    /\ expression_parser = Idle
    /\ parser = Idle
    /\ planner = Idle

NextAggregations == AggregationReduceChunks

SpecAggregations == InitAggregations /\ [][NextAggregations]_vars

(***************************************************************************)
(* Properties of the aggregation families.                                 *)
(***************************************************************************)
(* the aggregation of a whole column at once *)
AggregationOver(kind, column) ==
    CASE kind = "sum" -> PcSum(column)
      [] kind = "min" -> PcMin(column)
      [] kind = "max" -> PcMax(column)
      [] kind = "count" -> PcCount(column)
      [] kind = "mean" -> PcDivide(PcSum(column), PcCount(column))

(* C25: for Sum, Min, Max, Count and Mean and every cut of a group's rows  *)
(* into non-empty chunks, reduce of the chunks' compute_chunk partials is  *)
(* the aggregation of all the rows at once.                                *)
C25_ReduceOfPartials ==
    aggregate.pc = "reduced"
    => aggregate.result = AggregationOver(aggregate.kind, Flatten(aggregate.chunks))

C25_Witness ==
    /\ aggregate.pc = "reduced"
    /\ aggregate.kind = "mean"
    /\ aggregate.chunks = <<<<Some(2), None>>, <<Some(1)>>>>
    /\ aggregate.result = Some(1)

(***************************************************************************)
(* Properties of ExternalSortKey over nullable columns.                    *)
(***************************************************************************)
(* the first place where two keys differ, 0 when they are equal *)
FirstDifference(values, other) ==
    LET differ == {i \in DOMAIN values : values[i] # other[i]}
    IN  IF differ = {} THEN 0 ELSE CHOOSE i \in differ : \A j \in differ : i <= j

(* C24: comparing two composite keys never raises: two nulls in one place  *)
(* are equal and the comparison moves on, and in an ascending place a null *)
(* is before every non-null value.                                         *)
C24_NullsCompare ==
    extsort.pc = "compared"
    => LET i == FirstDifference(extsort.values, extsort.other)
       IN  /\ extsort.lt # "TypeError"
           /\ i = 0 => extsort.lt = "false"
           /\ (i > 0 /\ ~ extsort.descending_orders[i] /\ extsort.values[i] = None)
              => extsort.lt = "true"
           /\ (i > 0 /\ ~ extsort.descending_orders[i] /\ extsort.other[i] = None)
              => extsort.lt = "false"

(***************************************************************************)
(* Properties of the streaming operators.                                  *)
(***************************************************************************)
(* the batch of the child on which the expression fails *)
BatchFails(batch) ==
    IF filter.pc # "idle"
    THEN ExpressionRaises(ExpressionApply(filter.expression, batch))
    ELSE ~ ProjectBatch(project, batch).ok

(* the place of the first batch of the child that fails, 0 when none does *)
FirstFailure ==
    LET failing == {k \in DOMAIN child._batches : BatchFails(child._batches[k])}
    IN  IF failing = {} THEN 0
        ELSE CHOOSE k \in failing : \A j \in failing : k <= j

(* one step of a streaming node around the failure on batch k: before is
   the node and after the node the step leaves *)
FailureStep(before, after, k) ==
    /\ (k > 0 /\ child.pos = k - 1 /\ child'.pos = k) => after.pc = "error"
    /\ (before.pc # "error" /\ after.pc = "error")
       => /\ k > 0
          /\ child'.pos = k
          /\ after.requests = k
          /\ Len(after.out) = k - 1
          /\ after.out = before.out
    /\ before.pc = "error"
       => /\ after.pc = "error"
          /\ after.out = before.out
          /\ Len(after.out) = k - 1
          /\ child'.pos = child.pos

(* C23: when the expression of a FilterNode or ProjectNode fails on the     *)
(* k-th batch of the child, the consumer has received the outputs of the   *)
(* batches 1..k-1 and nothing else, the k-th request ends with the error,  *)
(* and every later request ends the sequence: it emits nothing and does    *)
(* not pull from the child.                                                *)
C23_FailureEndsStream ==
    [][/\ filter.pc # "idle" => FailureStep(filter, filter', FirstFailure)
       /\ project.pc # "idle" => FailureStep(project, project', FirstFailure)
       /\ (filter.pc # "idle" /\ filter'.pc = "error")
          => \A j \in DOMAIN filter'.out :
                filter'.out[j] = TrueRows(child._batches[j], filter.expression)]_vars

C23_Witness ==
    /\ filter.pc = "error"
    /\ child.pos = 2
    /\ Len(filter.out) = 1
    /\ filter.out[1] # <<>>
    /\ filter.requests = 3
    /\ Len(child._batches) = 2

C21_TokensEndWithEOF ==
    parser.pc = "created" =>
        /\ parser.tokens # <<>>
        /\ parser.tokens[Len(parser.tokens)] = EOFToken
        /\ \A i \in 1..(Len(parser.tokens) - 1) : parser.tokens[i].kind # "EOFToken"

(* the text is one word of the IDENTIFIER pattern [A-Za-z_][A-Za-z0-9_\.]* *)
IsIdentifierWord(text) ==
    /\ text # <<>>
    /\ IsLetter(text[1]) \/ text[1] = "_"
    /\ \A i \in DOMAIN text : IsWordChar(text[i]) \/ text[i] = "."

(* the text is, whatever its case, a keyword or a text operator *)
IsReservedWord(text) ==
    \/ \E i \in DOMAIN Keywords : Upper(text) = Keywords[i].word
    \/ \E i \in DOMAIN JoinKeywords : Upper(text) = JoinKeywords[i].word
    \/ \E i \in DOMAIN TextOperators : Upper(text) = TextOperators[i]

(* C22: the tokenizer emits the longest token matching at a position: a word
   of the identifier pattern that is no keyword and no text operator, even
   when it begins with the letters of one, is one IDENTIFIER token, and a
   keyword token is produced only for a whole word. *)
C22_LongestMatch ==
    (parser.pc = "created" /\ IsIdentifierWord(parser.text) /\ ~ IsReservedWord(parser.text)) =>
        parser.tokens = <<IdentifierToken(parser.text)>>

====
